---- MODULE Spec2Model ----
(***************************************************************************)
(* bowman-tracker frontend: the request layer of src/unnamed/part_000      *)
(* (fetchWithTimeout, fetchAPI) as a state machine.  One action is one     *)
(* run-to-completion step of the single JavaScript thread: the synchronous *)
(* part of a fetchAPI call, or a continuation woken by the network or by a *)
(* timer together with the promise reactions it triggers.                  *)
(*                                                                         *)
(* Time is kept relative to the present: a cache entry carries its age     *)
(* (Date.now() - timestamp), a timer the time left until it fires.         *)
(* Promise objects and call frames are dropped once nothing refers to      *)
(* them; what a step delivered to its callers is held in `outcome` until   *)
(* the next step.                                                          *)
(*                                                                         *)
(* The chart of the same file (initChart, updateCandlestickChart,          *)
(* renderFallbackChart, toggleTheme, the resize listener) is a second      *)
(* state machine, ChartSpec, over the chart fields of `state`; the library *)
(* is the environment, and any of its calls may throw.  The candle         *)
(* synthesis inside updateCandlestickChart is a function of the payload    *)
(* and the variant; SynthSpec applies it to every payload within the       *)
(* bounds.                                                                 *)
(*                                                                         *)
(* The service worker of src/frontend/sw.js (install, activate, fetch,     *)
(* message) is a fourth state machine, ProxySpec, over the Cache Storage   *)
(* of the origin.  The network is the environment: a fetch() the worker    *)
(* started is answered, fails, or stays outstanding, and a cache.put the   *)
(* worker started completes in a later step.  A listener returns once it   *)
(* has handed its promise to waitUntil or respondWith; every callback of   *)
(* that chain (after caches.open, addAll, skipWaiting, caches.keys, the    *)
(* deletes, clients.claim, caches.match) is a step of its own, taken when  *)
(* the promise before it has settled.                                      *)
(*                                                                         *)
(* Around the request layer: postAPI (PostSpec) and fetchAPI behind the    *)
(* activated worker (OriginSpec), where the fetch the worker started for   *)
(* an attempt outlives the abort of that attempt.  The page as a whole,    *)
(* from init() on: loadAllData, the controls of the chart and of the       *)
(* table, and every loadChartData call resuming on its own once its        *)
(* request settled (LoadSpec); the same page under                         *)
(* setInterval(loadAllData, REFRESH_INTERVAL) with time passing            *)
(* (RefreshSpec).  LiveSpec is Spec with its timers firing.                *)
(***************************************************************************)
EXTENDS Integers, Sequences, FiniteSets, TLC

VARIABLES
    cache,            \* state.cache: Map cacheKey -> {data, timestamp}
    pendingRequests,  \* state.pendingRequests: Map cacheKey -> promise handle
    promises,         \* the live requestPromise objects, by handle
    calls,            \* the fetchAPI invocations still awaiting their promise
    net,              \* fetch() requests the browser has outstanding
    timers,           \* armed setTimeout(() => controller.abort(), timeout) timers
    outcome           \* what the step just taken delivered to fetchAPI callers

vars == <<cache, pendingRequests, promises, calls, net, timers, outcome>>

\* The chart of the page: state.chart, state.chartSeries, state.chartFallbackMode
\* and what surrounds them.
VARIABLES
    LightweightCharts,  \* the global of the charting library: defined or not
    chart,              \* state.chart: null (NoChart) or the chart handle
    chartSeries,        \* state.chartSeries: the series handles the page holds
    chartFallbackMode,  \* state.chartFallbackMode
    mainChart,          \* what the #mainChart container displays
    started,            \* init() has run
    probed,             \* what isChartLibraryAvailable() answered to init()
    updates,            \* number of updateCandlestickChart calls so far
    rendering           \* what the step just taken did with the chart

chartVars ==
    <<LightweightCharts, chart, chartSeries, chartFallbackMode, mainChart,
      started, probed, updates, rendering>>

\* The candle synthesis of updateCandlestickChart taken on its own.
VARIABLES
    input,              \* the payload and the variant handed to the synthesis
    output              \* the series it produced

synthVars == <<input, output>>

\* The service worker of src/frontend/sw.js.
VARIABLES
    worker,             \* the lifecycle state of the service worker
    chain,              \* the step of the promise handed to event.waitUntil
                        \* that has not settled yet
    cacheStorage,       \* caches: cache name -> (request path -> response)
    deleting,           \* the caches.delete(name) calls of activate not yet done
    inflight,           \* the fetch() and cache.put() operations not yet settled
    fetchEvents,        \* number of fetch events so far
    served,             \* the assets a successful response was delivered for
    answer,             \* what the step just taken did for its event
    routes              \* the fetch events raised for fetches of the page:
                        \* the event, the fetch, what respondWith settled with

proxyVars ==
    <<worker, chain, cacheStorage, deleting, inflight, fetchEvents, served,
      answer, routes>>

\* The rest of the page: the administrative writes of postAPI.
VARIABLES
    posts,              \* the postAPI calls that have not returned
    posted              \* what the step just taken did for a postAPI call

pageVars == <<posts, posted>>

\* The rest of the state object of lines 795-808, and the loaders under way.
\* A loader call that awaits its fetchAPI is the entry of `calls` for its url.
VARIABLES
    currentVariant,     \* state.currentVariant
    currentRange,       \* state.currentRange
    salesData,          \* state.salesData
    booting,            \* the urls whose loader init() still awaits (line 1842)
    resuming,           \* the loadChartData calls whose fetchAPI has settled
                        \* and that have not yet run on
    page,               \* state.pagination.page
    variantFilter,      \* the value of the #variantFilter select
    loads,              \* number of loader runs the controls and the interval
                        \* timer have started
    loaded,             \* what the step just taken did for a loadChartData call
    refreshTimer        \* state.refreshTimer: ms until loadAllData runs again

appVars ==
    <<currentVariant, currentRange, salesData, page, variantFilter, booting,
      resuming, loads, loaded, refreshTimer>>

----------------------------------------------------------------------------
\* Bounds of the exploration.
MaxCalls == 3

\* Inputs.
Keys == {"/summary"}
Payloads == {"d1", "d2"}
Statuses == {200, 404, 503}
TickSteps == {5000}

\* Program constants.
API_TIMEOUT == 10000
MAX_RETRIES == 2
cacheTimeout == 30000
BACKOFF_BASE == 500

NoTime == -1
None == "none"

----------------------------------------------------------------------------
\* JavaScript Map operations on a function whose DOMAIN is the key set.
MapHas(m, k) == k \in DOMAIN m
MapSet(m, k, v) == [x \in (DOMAIN m) \cup {k} |-> IF x = k THEN v ELSE m[x]]
MapDelete(m, k) == [x \in (DOMAIN m) \ {k} |-> m[x]]
EmptyMap == [x \in {} |-> None]

Min(a, b) == IF a <= b THEN a ELSE b

\* `HTTP ${response.status}`
HttpError(status) ==
    CASE status = 404 -> "HTTP 404"
      [] status = 503 -> "HTTP 503"
      [] OTHER -> "HTTP other"

\* Response.ok: status in the range 200-299.
ResponseOk(status) == status >= 200 /\ status <= 299

\* Line 1037: the client-error test; both arms of it throw the same Error.
IsClientError(status) == status >= 400 /\ status < 500

TimeoutMessage == "Request timed out"
NetworkFailure == "Failed to fetch"
BodyFailure == "Unexpected token"
AbortFailure == "AbortError"

----------------------------------------------------------------------------
\* Line 1016: Date.now() - cached.timestamp < state.cacheTimeout
IsFreshSeconds(entry) == entry.age < cacheTimeout \div 1000
IsFreshInclusive(entry) == entry.age <= cacheTimeout
IsFresh(entry) == entry.age < cacheTimeout

\* Lines 1014-1018: the call is answered from the cache.
CacheHitIgnoringSkip(k, skipCache) == MapHas(cache, k) /\ IsFresh(cache[k])
CacheHit(k, skipCache) == ~skipCache /\ MapHas(cache, k) /\ IsFresh(cache[k])

\* Lines 1014-1021: the cache after the lookup (an expired entry is deleted).
CacheAfterLookupEvicting(k, skipCache) ==
    IF MapHas(cache, k) THEN MapDelete(cache, k) ELSE cache
CacheAfterLookup(k, skipCache) ==
    IF ~skipCache /\ MapHas(cache, k) /\ ~IsFresh(cache[k])
    THEN MapDelete(cache, k)
    ELSE cache

\* Line 1024: state.pendingRequests.has(cacheKey)
NeverPending(k) == FALSE
HasPending(k) == MapHas(pendingRequests, k)

\* Line 1064: state.pendingRequests.set(cacheKey, requestPromise)
RegisterNothing(k, h) == pendingRequests
RegisterPending(k, h) == MapSet(pendingRequests, k, h)

\* Line 1046: state.cache.set(cacheKey, { data, timestamp: Date.now() })
StoreEntryUnstamped(k, d) == MapSet(cache, k, [data |-> d, age |-> cacheTimeout])
StoreEntry(k, d) == MapSet(cache, k, [data |-> d, age |-> 0])

\* Line 1031: the loop condition attempt <= retries.
LoopContinuesOnceMore(attempt, retries) == attempt <= retries + 1
LoopContinues(attempt, retries) == attempt <= retries

\* Line 1054: a delay is waited only when another attempt follows.
ShouldBackoff(attempt, retries) == attempt < retries

\* Line 1055: 500 * Math.pow(2, attempt)
BackoffDelayFlat(attempt) == BACKOFF_BASE
BackoffDelay(attempt) == BACKOFF_BASE * (2 ^ attempt)

\* Line 1050: lastError = error
RecordFirstError(lastError, error) == IF lastError = None THEN error ELSE lastError
RecordError(lastError, error) == error

\* Lines 999 and 1002: clearTimeout(timeoutId) of the attempt that just ended.
ClearTimeoutForgotten(h, attempt) == timers
ClearTimeout(h, attempt) == {t \in timers : ~(t.handle = h /\ t.attempt = attempt)}

\* Lines 994-998: a fresh controller, its abort timer, and the fetch itself.
ArmTimer(ts, h, attempt) ==
    ts \cup {[handle |-> h, attempt |-> attempt, remaining |-> API_TIMEOUT]}
IssueFetch(nt, h, attempt, k) ==
    nt \cup {[handle |-> h, attempt |-> attempt, key |-> k, elapsed |-> 0]}

\* Lines 1028-1033: the async IIFE runs synchronously up to its first await.
NewPromise(k, retries) ==
    [key |-> k, retries |-> retries, attempt |-> 0, phase |-> "fetch",
     lastError |-> None, failure |-> None, clientErrorAt |-> 0, attempts |-> 1,
     wake |-> NoTime, slept |-> 0, delays |-> <<>>, settleLag |-> 0,
     value |-> None]

Settled(p) == p.phase \in {"resolved", "rejected"}

\* Line 1069: finally { state.pendingRequests.delete(cacheKey) }
FinallyDelete(k) == MapDelete(pendingRequests, k)

\* A handle no live promise of ps and no waiting call of cs uses.
FreshHandle(ps, cs) ==
    CHOOSE h \in 1..(Cardinality(DOMAIN ps) + MaxCalls + 1) :
        /\ h \notin DOMAIN ps
        /\ \A i \in 1..Len(cs) : cs[i].handle # h

\* Promise objects that are settled and that the in-flight map no longer
\* refers to are unreachable.
Collect(ps, pending) ==
    [h \in {x \in DOMAIN ps :
               ~Settled(ps[x]) \/ (\E k \in DOMAIN pending : pending[k] = x)}
        |-> ps[h]]

NoPromise == [NewPromise(None, 0) EXCEPT !.phase = None, !.attempts = 0]

NoOutcome ==
    [handle |-> 0, key |-> None, status |-> None, value |-> None,
     promise |-> NoPromise, delivered |-> <<>>]

\* The awaiting callers cs resume with the promise's outcome.
Receive(cs, status, value) ==
    [i \in 1..Len(cs) |-> [cs[i] EXCEPT !.status = status, !.value = value]]

\* The promise h settles as q: fetchAPI's finally block (line 1069) is its first
\* reaction, then every caller awaiting it receives its outcome.
SettleCalls(h, q) ==
    /\ pendingRequests' = FinallyDelete(q.key)
    /\ promises' = Collect([promises EXCEPT ![h] = q], pendingRequests')
    /\ calls' = SelectSeq(calls, LAMBDA c : c.handle # h)
    /\ outcome' = [handle |-> h, key |-> q.key, status |-> q.phase, value |-> q.value,
                   promise |-> q,
                   delivered |-> Receive(SelectSeq(calls, LAMBDA c : c.handle = h),
                                         q.phase, q.value)]


----------------------------------------------------------------------------
\* The data the chart is drawn from: GET /chart/{variant} answers
\* {success, data_points: [{x, y, variant, date}]}.
\*
\* A JavaScript number is a number or NaN.  Prices are decimals; the model
\* counts open/high/low/close in thousandths of the price unit (Scale), which
\* makes price * 0.003 and price * 0.005 exact.  A point without y reads
\* undefined, which every computation below turns into NaN.
Scale == 1000
Num(n) == [nan |-> FALSE, val |-> n]
NaN == [nan |-> TRUE, val |-> 0]
Plus(a, b) == IF a.nan \/ b.nan THEN NaN ELSE Num(a.val + b.val)
Minus(a, b) == IF a.nan \/ b.nan THEN NaN ELSE Num(a.val - b.val)
Times(a, k) == IF a.nan THEN NaN ELSE Num(a.val * k)

\* date is the day of the sale, 'YYYY-MM-DD' read as the number YYYYMMDD (the
\* order of the strings is the order of the numbers).
Point(x, y, variant, date) == [x |-> x, y |-> y, variant |-> variant, date |-> date]

\* The sale points the payloads are made of: the three variants, equal
\* timestamps, timestamps within one second, timestamps five minutes apart in
\* two variants, labels outside the known variants, a point without a price
\* and a price below zero.
SalePoints ==
    { Point(1000, Num(100), "jumbo", 20240301),
      Point(1000, Num(110), "jumbo", 20240301),
      Point(1400, Num(120), "jumbo", 20240301),
      Point(2000, Num(110), "jumbo", 20240302),
      Point(301000, Num(130), "jumbo", 20240302),
      Point(1000, Num(200), "breakers_delight", 20240301),
      Point(1000, Num(50), "hobby", 20240301),
      Point(1000, Num(100), "mega", 20240301),
      Point(1000, Num(100), "constructor", 20240301),
      Point(1000, NaN, "jumbo", 20240301),
      Point(2000, Num(-100), "jumbo", 20240302) }

MaxPoints == 3

RECURSIVE SeqsOfLen(_, _)
SeqsOfLen(S, n) ==
    IF n = 0 THEN {<<>>}
    ELSE {Append(s, e) : s \in SeqsOfLen(S, n - 1), e \in S}

SeqsUpTo(S, n) == UNION {SeqsOfLen(S, m) : m \in 0..n}

\* A payload, and the payload that lacks data_points.
Payload(points) == [success |-> TRUE, data_points |-> points]
NoDataPoints == [success |-> TRUE]
HasDataPoints(data) == "data_points" \in DOMAIN data

Variants == {"all", "jumbo"}

\* variantGroups (lines 1444-1448) and Object.keys(variantGroups).
VariantKeys == <<"jumbo", "breakers_delight", "hobby">>

\* The property names an object literal inherits from Object.prototype:
\* variantGroups[v] is truthy for each of them although v is no variant, and
\* has no push.
ObjectPrototypeKeys ==
    {"constructor", "hasOwnProperty", "isPrototypeOf", "propertyIsEnumerable",
     "toLocaleString", "toString", "valueOf", "__proto__",
     "__defineGetter__", "__defineSetter__", "__lookupGetter__",
     "__lookupSetter__"}

\* variantOffsets, line 1459.
VariantOffsetRepeated(variantKey) ==
    CASE variantKey = "jumbo" -> 0
      [] variantKey = "breakers_delight" -> 300
      [] variantKey = "hobby" -> 300
VariantOffset(variantKey) ==
    CASE variantKey = "jumbo" -> 0
      [] variantKey = "breakers_delight" -> 300
      [] variantKey = "hobby" -> 600

\* price * 0.003 (line 1478) and price * 0.005 (line 1517), in thousandths.
VARIANCE_OVERLAY == 3
VARIANCE_SINGLE == 5

\* data.data_points.forEach(point => ...), lines 1450-1455: the points pushed
\* to variantGroups[variantKey], in input order.
GroupOf(points, variantKey) ==
    SelectSeq(points, LAMBDA point : point.variant = variantKey)

\* variantGroups[v].push throws a TypeError when v names an inherited property.
GroupingThrows(points) ==
    \E i \in 1..Len(points) : points[i].variant \in ObjectPrototypeKeys

\* [...points].sort((a, b) => a.x - b.x): ascending by x, equal x in input
\* order (Array.prototype.sort is stable).
RECURSIVE InsertByX(_, _)
InsertByX(sorted, point) ==
    IF sorted = <<>> THEN <<point>>
    ELSE IF Head(sorted).x <= point.x
         THEN <<Head(sorted)>> \o InsertByX(Tail(sorted), point)
         ELSE <<point>> \o sorted

RECURSIVE SortByX(_)
Unsorted(points) == points
SortByX(points) ==
    IF points = <<>> THEN <<>>
    ELSE InsertByX(SortByX(SubSeq(points, 1, Len(points) - 1)), points[Len(points)])

\* The candle of one point, lines 1474-1487 and 1513-1526.
CandleInverted(point, index, offsetSeconds, perMille) ==
    LET price == Times(point.y, Scale)
        variance == Times(point.y, perMille)
    IN  [time  |-> (point.x \div 1000) + (index * 3600) + offsetSeconds,
         open  |-> Minus(price, variance),
         high  |-> Minus(price, variance),
         low   |-> Plus(price, variance),
         close |-> Plus(price, variance)]
Candle(point, index, offsetSeconds, perMille) ==
    LET price == Times(point.y, Scale)
        actualTime == (point.x \div 1000) + (index * 3600) + offsetSeconds
        variance == Times(point.y, perMille)
    IN  [time  |-> actualTime,
         open  |-> Minus(price, variance),
         high  |-> Plus(price, variance),
         low   |-> Minus(price, variance),
         close |-> Plus(price, variance)]

\* sorted.map((point, index) => ...): index counts from 0.
CandleData(sorted, offsetSeconds, perMille) ==
    [i \in 1..Len(sorted) |-> Candle(sorted[i], i - 1, offsetSeconds, perMille)]

\* Object.keys(variantGroups).forEach: the keys whose group is not empty
\* (line 1463), in key order.
AllKeys(points) == VariantKeys
NonEmptyKeys(points) ==
    SelectSeq(VariantKeys, LAMBDA variantKey : Len(GroupOf(points, variantKey)) > 0)

\* What the 'all' branch hands to the chart: one addCandlestickSeries and one
\* setData per key of NonEmptyKeys.
OverlaySeries(points) ==
    LET keys == NonEmptyKeys(points)
    IN  [n \in 1..Len(keys) |->
            [variant |-> keys[n],
             candles |-> CandleData(SortByX(GroupOf(points, keys[n])),
                                    VariantOffset(keys[n]), VARIANCE_OVERLAY)]]

\* What the single-variant branch hands to the chart: one series of all the
\* points of the payload.
SingleSeries(points, variant) ==
    <<[variant |-> variant,
       candles |-> CandleData(SortByX(points), 0, VARIANCE_SINGLE)]>>

\* The part of the try block of updateCandlestickChart that does not touch the
\* chart: threw tells that it raised a TypeError before any series was made.
Synthesize(data, variant) ==
    IF ~HasDataPoints(data) THEN [threw |-> TRUE, series |-> <<>>]
    ELSE IF variant = "all"
         THEN IF GroupingThrows(data.data_points)
              THEN [threw |-> TRUE, series |-> <<>>]
              ELSE [threw |-> FALSE, series |-> OverlaySeries(data.data_points)]
         ELSE [threw |-> FALSE, series |-> SingleSeries(data.data_points, variant)]

NoInput == [data |-> NoDataPoints, variant |-> None]
NoOutput == [threw |-> FALSE, series |-> <<>>, done |-> FALSE]

----------------------------------------------------------------------------
\* The chart: isChartLibraryAvailable, initChart, updateCandlestickChart,
\* renderFallbackChart, toggleTheme and the resize listener.  The #mainChart
\* and #chartLegend elements belong to the page and are always found; the
\* legend text is not modelled.
Defined == "defined"
Undefined == "undefined"
NoChart == "null"
TheChart == "chart"

\* isChartLibraryAvailable(), line 1198-1200.
IsChartLibraryAvailable == LightweightCharts = Defined

\* A call of a method of the library, of the chart handle or of a series
\* handle: series is the series handle it concerns (or <<>>), variant the
\* title of the series, candles the data handed to setData.
CallOn(method, series, variant, candles) ==
    [method |-> method, series |-> series, variant |-> variant,
     candles |-> candles]
Call(method) == CallOn(method, <<>>, None, <<>>)

\* What #mainChart displays.
Shows(what, days, count) == [shows |-> what, days |-> days, count |-> count]
Blank == Shows("blank", <<>>, 0)
Skeleton == Shows("skeleton", <<>>, 0)
ChartCanvas == Shows("chart", <<>>, 0)

\* Math.max(...prices), Math.min(...prices) and the sum of prices.reduce, over
\* a non-empty sequence of JavaScript numbers.
RECURSIVE MaxOf(_)
MaxOf(prices) ==
    IF Len(prices) = 1 THEN prices[1]
    ELSE LET rest == MaxOf(Tail(prices))
         IN  IF prices[1].nan \/ rest.nan THEN NaN
             ELSE IF prices[1].val >= rest.val THEN prices[1] ELSE rest

RECURSIVE MinOf(_)
MinOf(prices) ==
    IF Len(prices) = 1 THEN prices[1]
    ELSE LET rest == MinOf(Tail(prices))
         IN  IF prices[1].nan \/ rest.nan THEN NaN
             ELSE IF prices[1].val <= rest.val THEN prices[1] ELSE rest

RECURSIVE SumOf(_)
SumOf(prices) ==
    IF prices = <<>> THEN Num(0) ELSE Plus(prices[1], SumOf(Tail(prices)))

\* slice(0, 10), line 1253.
FALLBACK_DAYS == 10

\* dailyData[date], lines 1242-1250, with the figures of lines 1294-1296: the
\* mean shown is total / count.
DayRow(points, date) ==
    LET ofDay == SelectSeq(points, LAMBDA point : point.date = date)
        prices == [i \in 1..Len(ofDay) |-> ofDay[i].y]
    IN  [date |-> date, count |-> Len(prices), total |-> SumOf(prices),
         low |-> MinOf(prices), high |-> MaxOf(prices)]

\* Object.values(dailyData).sort((a, b) => b.date.localeCompare(a.date)): the
\* days of the payload, latest first.
RECURSIVE DaysDescending(_)
DaysDescending(dates) ==
    IF dates = {} THEN <<>>
    ELSE LET latest == CHOOSE d \in dates : \A e \in dates : e <= d
         IN  <<latest>> \o DaysDescending(dates \ {latest})

SortedDaysUncapped(points) ==
    DaysDescending({points[i].date : i \in 1..Len(points)})
SortedDays(points) ==
    LET days == DaysDescending({points[i].date : i \in 1..Len(points)})
    IN  SubSeq(days, 1, Min(Len(days), FALLBACK_DAYS))

\* The table renderFallbackChart writes into #mainChart, lines 1261-1310.
FallbackSummary(points) ==
    LET days == SortedDays(points)
    IN  Shows("summary", [n \in 1..Len(days) |-> DayRow(points, days[n])],
              Len(points))

\* renderFallbackChart(data, variant), lines 1234-1321: chartFallbackMode is
\* set before data.data_points is read, which throws when it is missing.
RenderFallbackChart(data, shown) ==
    [chartFallbackMode |-> TRUE,
     threw |-> ~HasDataPoints(data),
     mainChart |-> IF HasDataPoints(data)
                   THEN FallbackSummary(data.data_points) ELSE shown]

\* initChart(), lines 1327-1414.  createThrows: LightweightCharts.createChart
\* (or the reading of its options) throws.
InitChartKeepsMode(createThrows) ==
    LET shown == IF chart = NoChart THEN Skeleton ELSE mainChart
        removal == IF chart # NoChart THEN <<Call("remove")>> ELSE <<>>
    IN  IF ~IsChartLibraryAvailable
        THEN [ok |-> FALSE, chart |-> chart, chartSeries |-> chartSeries,
              chartFallbackMode |-> chartFallbackMode, mainChart |-> shown,
              calls |-> <<>>]
        ELSE IF createThrows
        THEN [ok |-> FALSE, chart |-> NoChart, chartSeries |-> <<>>,
              chartFallbackMode |-> TRUE, mainChart |-> Blank,
              calls |-> removal \o <<Call("createChart")>>]
        ELSE [ok |-> TRUE, chart |-> TheChart, chartSeries |-> <<>>,
              chartFallbackMode |-> FALSE, mainChart |-> ChartCanvas,
              calls |-> removal \o <<Call("createChart")>>]
InitChartUncaught(createThrows) ==
    LET shown == IF chart = NoChart THEN Skeleton ELSE mainChart
        removal == IF chart # NoChart THEN <<Call("remove")>> ELSE <<>>
    IN  IF ~IsChartLibraryAvailable
        THEN [ok |-> FALSE, chart |-> chart, chartSeries |-> chartSeries,
              chartFallbackMode |-> TRUE, mainChart |-> shown, calls |-> <<>>]
        ELSE IF createThrows
        THEN [ok |-> FALSE, chart |-> NoChart, chartSeries |-> <<>>,
              chartFallbackMode |-> chartFallbackMode, mainChart |-> Blank,
              calls |-> removal \o <<Call("createChart")>>]
        ELSE [ok |-> TRUE, chart |-> TheChart, chartSeries |-> <<>>,
              chartFallbackMode |-> FALSE, mainChart |-> ChartCanvas,
              calls |-> removal \o <<Call("createChart")>>]
InitChart(createThrows) ==
    LET shown == IF chart = NoChart THEN Skeleton ELSE mainChart
        removal == IF chart # NoChart THEN <<Call("remove")>> ELSE <<>>
    IN  IF ~IsChartLibraryAvailable
        THEN [ok |-> FALSE, chart |-> chart, chartSeries |-> chartSeries,
              chartFallbackMode |-> TRUE, mainChart |-> shown, calls |-> <<>>]
        ELSE IF createThrows
        THEN [ok |-> FALSE, chart |-> NoChart, chartSeries |-> <<>>,
              chartFallbackMode |-> TRUE, mainChart |-> Blank,
              calls |-> removal \o <<Call("createChart")>>]
        ELSE [ok |-> TRUE, chart |-> TheChart, chartSeries |-> <<>>,
              chartFallbackMode |-> FALSE, mainChart |-> ChartCanvas,
              calls |-> removal \o <<Call("createChart")>>]

\* What a step did with the chart: the handler that ran and its arguments, the
\* calls it made on the library in order, whether it went to
\* renderFallbackChart, and whether an exception left the handler.  repeat
\* tells that the step before was an update with the same arguments.
DidWith(op, data, variant, made, fallback, threw) ==
    [op |-> op, data |-> data, variant |-> variant, calls |-> made,
     fallback |-> fallback, threw |-> threw,
     repeat |-> /\ op = "update"
                /\ rendering.op = "update"
                /\ rendering.data = data
                /\ rendering.variant = variant]
Did(op, made, fallback, threw) ==
    DidWith(op, NoDataPoints, None, made, fallback, threw)
NoRendering ==
    [op |-> None, data |-> NoDataPoints, variant |-> None, calls |-> <<>>,
     fallback |-> FALSE, threw |-> FALSE, repeat |-> FALSE]

\* The state object of lines 795-808 before init() has run.
ChartIdle ==
    /\ chart = NoChart
    /\ chartSeries = <<>>
    /\ chartFallbackMode = FALSE
    /\ mainChart = Blank
    /\ started = FALSE
    /\ probed = None
    /\ updates = 0
    /\ rendering = NoRendering

SynthIdle ==
    /\ input = NoInput
    /\ output = NoOutput

----------------------------------------------------------------------------
\* The service worker, src/frontend/sw.js.

\* A request path is the sequence of its segments: '/' is <<>>,
\* '/css/styles.css' is <<"css", "styles.css">>.
CACHE_NAME == "bowman-tracker-v2"
STATIC_ASSETS ==
    { <<>>,
      <<"css", "styles.css">>,
      <<"css", "components.css">>,
      <<"css", "utilities.css">>,
      <<"js", "app.js">>,
      <<"js", "vendor", "lightweight-charts.min.js">>,
      <<"manifest.json">>,
      <<"icons", "icon-192.png">>,
      <<"icons", "icon-512.png">> }

\* The caches an earlier version of the worker may have left.
OldCacheNames == {"bowman-tracker-v1", "bowman-tracker-v0"}

\* The requests of the page: the document, an asset that is not precached,
\* and a call of the API; with GET or with another method.
Paths == { <<>>, <<"favicon.ico">>, <<"api", "prices">> }
Methods == {"GET", "POST"}

\* What the server sends for a path: the first or a later release of it.
Bodies == {"release 1", "release 2"}
ErrorPage == "not found"

\* A Response: ok is response.ok.
Response(ok, body) == [ok |-> ok, body |-> body]
NoResponse == Response(FALSE, None)

\* new Response(JSON.stringify({ success: false, error: 'You are offline' }),
\* { headers: ... }), lines 61-64: status 200.
OfflineResponseNotOk ==
    Response(FALSE, "{\"success\":false,\"error\":\"You are offline\"}")
OfflineResponse ==
    Response(TRUE, "{\"success\":false,\"error\":\"You are offline\"}")

\* request.method !== 'GET' makes the listener return, line 53.
InterceptsAll(method) == TRUE
Intercepts(method) == method = "GET"

\* url.pathname.startsWith('/api/'), line 56.
IsApiNever(path) == FALSE
IsApi(path) == Len(path) >= 2 /\ path[1] = "api"

\* caches.match(request), line 72: the entry of the first cache, in order of
\* creation, that holds the request; NoResponse stands for undefined.
CreationOrder == <<"bowman-tracker-v0", "bowman-tracker-v1", CACHE_NAME>>
Match(storage, path) ==
    LET holding == SelectSeq(CreationOrder,
                             LAMBDA name : /\ name \in DOMAIN storage
                                           /\ path \in DOMAIN storage[name])
    IN  IF holding = <<>> THEN NoResponse ELSE storage[holding[1]][path]

\* if (cachedResponse), line 73.
AnswersFromNetwork(cachedResponse) == FALSE
AnswersFromCache(cachedResponse) == cachedResponse # NoResponse

\* if (response.ok), lines 78 and 92.
StoresAnyResponse(response) == TRUE
Stores(response) == response.ok

\* cacheNames.filter(name => name !== CACHE_NAME), line 37.
StaleNone(cacheNames) == {}
Stale(cacheNames) == {name \in cacheNames : name # CACHE_NAME}

\* caches.open(name).then(cache => cache.put(path, response)): the cache is
\* created when it does not exist.
Put(storage, name, path, response) ==
    MapSet(storage, name,
           MapSet(IF name \in DOMAIN storage THEN storage[name] ELSE EmptyMap,
                  path, response))

\* cache.addAll(STATIC_ASSETS), line 25, when every asset was fetched.
AddAll(storage, name, response) ==
    MapSet(storage, name,
           [path \in (IF name \in DOMAIN storage THEN DOMAIN storage[name] ELSE {})
                        \cup STATIC_ASSETS |->
               IF path \in STATIC_ASSETS THEN response ELSE storage[name][path]])

\* An operation the worker started for fetch event id and that has not
\* settled: the caches.match of a static request before it has read the
\* storage ("match") and after ("matched", response being the entry it
\* found), the fetch() of an API request ("api"), of a cache miss ("miss") or
\* of a revalidation ("revalidate"), or a cache.put ("put") of a response;
\* again as in Answer.
Pending(id, kind, path, response, again) ==
    [id |-> id, kind |-> kind, path |-> path, response |-> response,
     again |-> again]

\* What a step did for a fetch event: whether caches.match was called, the
\* response it had in hands, whether the promise of respondWith settled in it
\* (source "cache", "network", "synthesized", or "error" for a rejection);
\* again tells that a successful response for the path had been delivered
\* before the event.
Answer(op, id, method, path, matched, responded, source, response, again) ==
    [op |-> op, id |-> id, method |-> method, path |-> path,
     matched |-> matched, responded |-> responded, source |-> source,
     response |-> response, again |-> again]
NoAnswer == Answer(None, 0, None, <<>>, FALSE, FALSE, None, NoResponse, FALSE)

\* The origin before the worker is installed, without caches.
ProxyIdle ==
    /\ worker = "parsed"
    /\ chain = None
    /\ cacheStorage = EmptyMap
    /\ deleting = {}
    /\ inflight = {}
    /\ fetchEvents = 0
    /\ served = {}
    /\ answer = NoAnswer
    /\ routes = {}

----------------------------------------------------------------------------
\* postAPI(endpoint, data), lines 156-169.

\* A postAPI call: the fetch() requests it has issued so far, and whether it
\* awaits the response ("fetch") or response.json() ("body").
PostCall(endpoint, phase, requests) ==
    [endpoint |-> endpoint, phase |-> phase, requests |-> requests]

\* What a step did for a postAPI call: the requests the call issued in the
\* step and in all, and how it returned, if it did.
Posted(id, endpoint, issued, requests, status, value) ==
    [id |-> id, endpoint |-> endpoint, issued |-> issued,
     requests |-> requests, status |-> status, value |-> value]
NoPosted == Posted(0, None, 0, 0, None, None)

\* The catch of lines 165-168 logs and rethrows: no further attempt.
PostRetriesLikeFetch(requests) == ShouldBackoff(requests - 1, MAX_RETRIES)
PostRetries(requests) == FALSE

\* No postAPI call has been made.
PageIdle ==
    /\ posts = EmptyMap
    /\ posted = NoPosted

\* What a step did for a loadChartData call: the call, how its fetchAPI
\* settled and with what, whether the payload was taken over, and whether
\* an exception left loadChartData.
Loaded(variant, range, status, data, assigned, threw) ==
    [variant |-> variant, range |-> range, status |-> status,
     data |-> data, assigned |-> assigned, threw |-> threw]
NoLoaded == Loaded(None, None, None, NoDataPoints, FALSE, FALSE)

\* The state object of lines 795-808: no load was made, no timer is set.
AppIdle ==
    /\ currentVariant = "all"
    /\ currentRange = "30d"
    /\ salesData = EmptyMap
    /\ page = 1
    /\ variantFilter = "all"
    /\ booting = {}
    /\ resuming = <<>>
    /\ loads = 0
    /\ loaded = NoLoaded
    /\ refreshTimer = NoTime

----------------------------------------------------------------------------
\* The request layer before any request: lines 795-808.
RequestIdle ==
    /\ cache = EmptyMap
    /\ pendingRequests = EmptyMap
    /\ promises = EmptyMap
    /\ calls = <<>>
    /\ net = {}
    /\ timers = {}
    /\ outcome = NoOutcome

Init ==
    /\ RequestIdle
    /\ LightweightCharts = Defined
    /\ ChartIdle
    /\ SynthIdle
    /\ ProxyIdle
    /\ PageIdle
    /\ AppIdle

\* The request state as a value: what a synchronous run of fetchAPI calls
\* starts from and hands from one call to the next.
Requests ==
    [cache |-> cache, pendingRequests |-> pendingRequests, promises |-> promises,
     calls |-> calls, net |-> net, timers |-> timers, outcome |-> NoOutcome]

\* The step ends in the request state st.
Becomes(st) ==
    /\ cache' = st.cache
    /\ pendingRequests' = st.pendingRequests
    /\ promises' = st.promises
    /\ calls' = st.calls
    /\ net' = st.net
    /\ timers' = st.timers
    /\ outcome' = st.outcome

\* fetchAPI(endpoint, skipCache): lines 1010-1067, up to the first suspension.
\* st is the request state that the earlier calls of the same synchronous
\* run have left; those calls were for other keys, so that what the lookups of
\* lines 1014-1026 find for k is what the step began with.
AfterFetchAPI(st, k, skipCache) ==
    LET call == [key |-> k, skipCache |-> skipCache,
                 entryAtIssue |-> MapHas(cache, k), handle |-> 0,
                 status |-> "pending", value |-> None]
        looked == [x \in DOMAIN st.cache \cap DOMAIN CacheAfterLookup(k, skipCache)
                      |-> st.cache[x]]
    IN  IF CacheHit(k, skipCache)
        THEN [st EXCEPT !.outcome =
                 [NoOutcome EXCEPT !.key = k, !.status = "resolved",
                                   !.value = cache[k].data,
                                   !.delivered =
                                       st.outcome.delivered \o
                                       Receive(<<call>>, "resolved", cache[k].data)]]
        ELSE IF HasPending(k)
        THEN LET h == pendingRequests[k]
                 p == promises[h]
                 joined == [call EXCEPT !.handle = h]
             IN  IF Settled(p)
                 THEN [st EXCEPT !.cache = looked,
                                 !.outcome =
                                     [handle |-> h, key |-> k, status |-> p.phase,
                                      value |-> p.value, promise |-> p,
                                      delivered |->
                                          st.outcome.delivered \o
                                          Receive(<<joined>>, p.phase, p.value)]]
                 ELSE [st EXCEPT !.cache = looked,
                                 !.calls = Append(@, joined)]
        ELSE LET h == FreshHandle(st.promises, st.calls)
                 registered == RegisterPending(k, h)
             IN  [st EXCEPT !.cache = looked,
                            !.promises = MapSet(@, h, NewPromise(k, MAX_RETRIES)),
                            !.timers = ArmTimer(@, h, 0),
                            !.net = IssueFetch(@, h, 0, k),
                            !.pendingRequests =
                                IF MapHas(registered, k)
                                THEN MapSet(@, k, registered[k]) ELSE @,
                            !.calls = Append(@, [call EXCEPT !.handle = h])]

\* One fetchAPI call made on its own.
FetchAPI(k, skipCache) ==
    /\ Len(calls) < MaxCalls
    /\ Becomes(AfterFetchAPI(Requests, k, skipCache))

\* The fetch of promise h's current attempt, as the browser holds it.
CurrentFetches(h) ==
    {f \in net : f.handle = h /\ f.attempt = promises[h].attempt}

\* Lines 1031-1033 and 1060-1069: the next loop iteration after a failed attempt:
\* either a new fetchWithTimeout, or the loop ends and the promise rejects with
\* lastError.
NextIteration(h, q, ts, nt) ==
    LET a == q.attempt + 1
    IN  IF LoopContinues(a, q.retries)
        THEN /\ promises' = [promises EXCEPT ![h] =
                    [q EXCEPT !.attempt = a, !.phase = "fetch", !.attempts = @ + 1,
                              !.delays = Append(@, q.slept),
                              !.wake = NoTime, !.slept = 0]]
             /\ timers' = ArmTimer(ts, h, a)
             /\ net' = IssueFetch(nt, h, a, q.key)
             /\ outcome' = NoOutcome
             /\ UNCHANGED <<pendingRequests, calls>>
        ELSE /\ timers' = ts
             /\ net' = nt
             /\ SettleCalls(h, [q EXCEPT !.phase = "rejected", !.value = q.lastError,
                                         !.settleLag = q.slept,
                                         !.wake = NoTime, !.slept = 0])

\* Lines 1049-1057: the catch block of one attempt.
CatchBlock(h, error, clientError, ts, nt) ==
    LET p == promises[h]
        q == [p EXCEPT !.lastError = RecordError(p.lastError, error),
                       !.failure = error,
                       !.clientErrorAt = IF @ = 0 /\ clientError THEN p.attempts ELSE @]
    IN  IF ShouldBackoff(p.attempt, p.retries)
        THEN /\ promises' = [promises EXCEPT ![h] =
                    [q EXCEPT !.phase = "backoff", !.wake = BackoffDelay(p.attempt)]]
             /\ timers' = ts
             /\ net' = nt
             /\ outcome' = NoOutcome
             /\ UNCHANGED <<pendingRequests, calls>>
        ELSE NextIteration(h, q, ts, nt)

\* fetch() resolves with a response of the given status: lines 998-1000, 1035-1043.
Respond(h, status) ==
    /\ promises[h].phase = "fetch"
    /\ CurrentFetches(h) # {}
    /\ LET ts == ClearTimeout(h, promises[h].attempt)
       IN  IF ~ResponseOk(status)
           THEN IF IsClientError(status)
                THEN CatchBlock(h, HttpError(status), TRUE, ts, net \ CurrentFetches(h))
                ELSE CatchBlock(h, HttpError(status), FALSE, ts, net \ CurrentFetches(h))
           ELSE /\ promises' = [promises EXCEPT ![h].phase = "body"]
                /\ timers' = ts
                /\ outcome' = NoOutcome
                /\ UNCHANGED <<net, pendingRequests, calls>>
    /\ UNCHANGED cache

\* fetch() rejects with a TypeError (connection failure): lines 1001-1006.
NetworkFail(h) ==
    /\ promises[h].phase = "fetch"
    /\ CurrentFetches(h) # {}
    /\ CatchBlock(h, NetworkFailure, FALSE, ClearTimeout(h, promises[h].attempt),
                  net \ CurrentFetches(h))
    /\ UNCHANGED cache

\* An abort timer fires: line 995, then lines 1001-1005 when the fetch it
\* belongs to is still waiting for its response.
TimerFires(t) ==
    /\ t \in timers
    /\ t.remaining = 0
    /\ LET h == t.handle
           aborted == {f \in net : f.handle = h /\ f.attempt = t.attempt}
           fired == timers \ {t}
           current == h \in DOMAIN promises /\ aborted # {}
                          /\ promises[h].attempt = t.attempt
       IN  IF current /\ promises[h].phase = "fetch"
           THEN CatchBlock(h, TimeoutMessage, FALSE,
                           ClearTimeout(h, t.attempt) \ {t}, net \ aborted)
           ELSE IF current /\ promises[h].phase = "body"
           THEN CatchBlock(h, AbortFailure, FALSE, fired, net \ aborted)
           ELSE /\ timers' = fired
                /\ net' = net \ aborted
                /\ outcome' = NoOutcome
                /\ UNCHANGED <<promises, pendingRequests, calls>>
    /\ UNCHANGED cache

\* response.json() resolves: lines 1043-1048, then the finally of line 1069.
BodyOk(h, data) ==
    /\ promises[h].phase = "body"
    /\ cache' = StoreEntry(promises[h].key, data)
    /\ net' = net \ CurrentFetches(h)
    /\ SettleCalls(h, [promises[h] EXCEPT !.phase = "resolved", !.value = data])
    /\ UNCHANGED timers

\* response.json() rejects (the body is not JSON, or the connection drops).
BodyFail(h) ==
    /\ promises[h].phase = "body"
    /\ CatchBlock(h, BodyFailure, FALSE, timers, net \ CurrentFetches(h))
    /\ UNCHANGED cache

\* The backoff timer of line 1055 fires.
Wake(h) ==
    /\ promises[h].phase = "backoff"
    /\ promises[h].wake = 0
    /\ NextIteration(h, promises[h], timers, net)
    /\ UNCHANGED cache

\* Time passes, but never beyond a timer that is due.
Sleeping == {h \in DOMAIN promises : promises[h].phase = "backoff"}
Due == {t.remaining : t \in timers} \cup {promises[h].wake : h \in Sleeping}

\* The time until a cache entry is one millisecond short of the TTL, and until
\* it reaches it.
ExpiryGaps ==
    UNION {{cacheTimeout - 1 - cache[k].age, cacheTimeout - cache[k].age} :
              k \in DOMAIN cache}

Gaps == TickSteps \cup Due \cup ExpiryGaps

Tick(d) ==
    /\ d > 0
    /\ \A r \in Due : d <= r
    /\ timers' = {[t EXCEPT !.remaining = @ - d] : t \in timers}
    /\ net' = {[f EXCEPT !.elapsed = Min(@ + d, API_TIMEOUT)] : f \in net}
    /\ promises' = [h \in DOMAIN promises |->
                      IF h \in Sleeping
                      THEN [promises[h] EXCEPT !.wake = @ - d, !.slept = @ + d]
                      ELSE promises[h]]
    /\ cache' = [k \in DOMAIN cache |->
                      [cache[k] EXCEPT !.age = Min(@ + d, cacheTimeout)]]
    /\ outcome' = NoOutcome
    /\ UNCHANGED <<pendingRequests, calls>>

\* The request layer on its own: the chart and the synthesis stay as they are.
Next ==
    \/ /\ \E k \in Keys, skipCache \in BOOLEAN : FetchAPI(k, skipCache)
       /\ UNCHANGED <<chartVars, synthVars, proxyVars, pageVars, appVars>>
    \/ /\ \E h \in DOMAIN promises, status \in Statuses : Respond(h, status)
       /\ UNCHANGED <<chartVars, synthVars, proxyVars, pageVars, appVars>>
    \/ /\ \E h \in DOMAIN promises : NetworkFail(h)
       /\ UNCHANGED <<chartVars, synthVars, proxyVars, pageVars, appVars>>
    \/ /\ \E t \in timers : TimerFires(t)
       /\ UNCHANGED <<chartVars, synthVars, proxyVars, pageVars, appVars>>
    \/ /\ \E h \in DOMAIN promises, data \in Payloads : BodyOk(h, data)
       /\ UNCHANGED <<chartVars, synthVars, proxyVars, pageVars, appVars>>
    \/ /\ \E h \in DOMAIN promises : BodyFail(h)
       /\ UNCHANGED <<chartVars, synthVars, proxyVars, pageVars, appVars>>
    \/ /\ \E h \in DOMAIN promises : Wake(h)
       /\ UNCHANGED <<chartVars, synthVars, proxyVars, pageVars, appVars>>
    \/ /\ \E d \in Gaps : Tick(d)
       /\ UNCHANGED <<chartVars, synthVars, proxyVars, pageVars, appVars>>

Spec == Init /\ [][Next]_vars

\* The request layer when the cache holds the entry of an earlier request
\* for another endpoint, expired since.
OtherKey == "/chart/all"

FrameInit ==
    /\ cache = MapSet(EmptyMap, OtherKey, [data |-> "d1", age |-> cacheTimeout])
    /\ pendingRequests = EmptyMap
    /\ promises = EmptyMap
    /\ calls = <<>>
    /\ net = {}
    /\ timers = {}
    /\ outcome = NoOutcome
    /\ LightweightCharts = Defined
    /\ ChartIdle
    /\ SynthIdle
    /\ ProxyIdle
    /\ PageIdle
    /\ AppIdle

FrameSpec == FrameInit /\ [][Next]_vars

\* The request layer with its timers: time passes, a timer that is due fires
\* (the abort of line 995, the backoff of line 1055), and a fetch() is
\* answered, fails or is aborted.  Nothing bounds the time response.json()
\* takes.
Fairness ==
    /\ WF_vars(\E d \in Gaps : Tick(d))
    /\ WF_vars(\E t \in timers : TimerFires(t))
    /\ WF_vars(\E h \in DOMAIN promises : Wake(h))

LiveSpec == Init /\ [][Next]_vars /\ Fairness

----------------------------------------------------------------------------
\* Shorthands used by the properties below.
Live == {h \in DOMAIN promises : ~Settled(promises[h])}
Waiting == 1..Len(calls)
Delivered == 1..Len(outcome.delivered)
PromiseSettled == outcome.handle # 0

\* A fetchAPI(k, skipCache) call is made in this step: its frame either starts
\* to wait or is answered at once.
Issued(k, skipCache) ==
    \/ /\ Len(calls') = Len(calls) + 1
       /\ calls'[Len(calls')].key = k
       /\ calls'[Len(calls')].skipCache = skipCache
    \/ /\ calls' = calls
       /\ Len(outcome'.delivered) = 1
       /\ outcome'.delivered[1].key = k
       /\ outcome'.delivered[1].skipCache = skipCache

----------------------------------------------------------------------------
\* C1: calls to fetchAPI(key) that are issued while the key has no cache entry
\* and while an earlier such call is still waiting all share one attempt
\* sequence (one promise, at most one fetch outstanding), and when that
\* sequence settles every one of them receives the same payload or the same
\* error, none being left waiting.
C1_Coalesced ==
    /\ \A i \in Waiting, j \in Waiting :
          (~calls[i].entryAtIssue /\ ~calls[j].entryAtIssue
              /\ calls[i].key = calls[j].key)
          => calls[i].handle = calls[j].handle
    /\ \A i \in Waiting :
          ~calls[i].entryAtIssue
          => /\ calls[i].handle \in Live
             /\ Cardinality({h \in Live : promises[h].key = calls[i].key}) = 1
             /\ Cardinality({f \in net : f.key = calls[i].key}) <= 1
    /\ PromiseSettled
          => /\ \A i \in Delivered, j \in Delivered :
                   /\ outcome.delivered[i].status = outcome.delivered[j].status
                   /\ outcome.delivered[i].value = outcome.delivered[j].value
             /\ \A i \in Delivered : outcome.delivered[i].status \in {"resolved", "rejected"}
             /\ \A i \in Waiting : calls[i].key # outcome.key

C1_Witness ==
    /\ PromiseSettled
    /\ Len(outcome.delivered) = 3
    /\ \A i \in Delivered :
          /\ ~outcome.delivered[i].entryAtIssue
          /\ outcome.delivered[i].value = "d2"

\* C2: at every instant each key has at most one fetch outstanding and at most
\* one unsettled request promise, and the in-flight map names exactly that
\* promise.
C2_OneInFlightPerKey ==
    \A k \in Keys :
        /\ Cardinality({f \in net : f.key = k}) <= 1
        /\ Cardinality({h \in Live : promises[h].key = k}) <= 1
        /\ \A h \in Live : promises[h].key = k
              => (MapHas(pendingRequests, k) /\ pendingRequests[k] = h)
        /\ MapHas(pendingRequests, k) => pendingRequests[k] \in Live
        /\ \A f \in net : f.key = k => f.handle \in Live

C2_Witness ==
    \E k \in Keys :
        /\ MapHas(cache, k)
        /\ MapHas(pendingRequests, k)
        /\ promises[pendingRequests[k]].attempt = 2
        /\ Cardinality({f \in net : f.key = k}) = 1
        /\ Len(calls) = 3
        /\ \E i \in Waiting : calls[i].skipCache

\* C3: a fetchAPI(key, skipCache = false) call that finds an entry younger than
\* 30000 ms is answered with that entry's payload, starts no fetch and no
\* timer, and leaves the cache and the in-flight map as they were.
C3_FreshHit ==
    [][\A k \in Keys :
          (MapHas(cache, k) /\ cache[k].age < 30000 /\ Issued(k, FALSE))
          => /\ outcome'.handle = 0
             /\ Len(outcome'.delivered) = 1
             /\ outcome'.delivered[1].status = "resolved"
             /\ outcome'.delivered[1].value = cache[k].data
             /\ net' = net
             /\ timers' = timers
             /\ cache' = cache
             /\ pendingRequests' = pendingRequests
             /\ promises' = promises
             /\ calls' = calls]_vars

C3_Witness ==
    /\ outcome.handle = 0
    /\ Len(outcome.delivered) = 1
    /\ ~outcome.delivered[1].skipCache
    /\ MapHas(cache, outcome.key)
    /\ cache[outcome.key].age = 29999
    /\ outcome.delivered[1].value = cache[outcome.key].data

\* C4: a fetchAPI(key, skipCache = false) call that finds an entry aged 30000 ms
\* or more deletes it; when no request for the key is in flight it issues
\* exactly one fetch (attempt 0 of a new promise registered for the key), and
\* when one is in flight it joins it without a further fetch.
C4_ExpiredLookup ==
    [][\A k \in Keys :
          (MapHas(cache, k) /\ cache[k].age >= 30000 /\ Issued(k, FALSE))
          => /\ ~MapHas(cache', k)
             /\ ~MapHas(pendingRequests, k)
                   => /\ Cardinality(net' \ net) = 1
                      /\ net \subseteq net'
                      /\ \A f \in net' \ net : f.key = k /\ f.attempt = 0
                      /\ MapHas(pendingRequests', k)
                      /\ calls'[Len(calls')].handle = pendingRequests'[k]
             /\ MapHas(pendingRequests, k)
                   => /\ net' = net
                      /\ calls'[Len(calls')].handle = pendingRequests[k]]_vars

C4_Witness ==
    \E i \in Waiting :
        /\ calls[i].entryAtIssue
        /\ ~calls[i].skipCache
        /\ ~MapHas(cache, calls[i].key)
        /\ Len(calls) = 1
        /\ promises[calls[i].handle].attempts = 1
        /\ \E f \in net : f.handle = calls[i].handle /\ f.elapsed = 0

\* C5: once an attempt has received a 4xx response the loop is over: no promise
\* that has seen a client error is still retrying, and the rejection comes with
\* the attempt that saw it.
C5_ClientErrorEndsLoop ==
    /\ \A h \in Live : promises[h].clientErrorAt = 0
    /\ (PromiseSettled /\ outcome.promise.clientErrorAt # 0)
          => /\ outcome.status = "rejected"
             /\ outcome.promise.attempts = outcome.promise.clientErrorAt

\* C6: a fetchAPI call never makes more than MAX_RETRIES + 1 = 3 fetches, every
\* outstanding fetch is the current attempt of an unsettled promise, and a
\* promise that resolved leaves no fetch and no timer behind.
C6_BoundedAttempts ==
    /\ \A h \in DOMAIN promises :
          /\ promises[h].attempts <= 3
          /\ promises[h].attempts = promises[h].attempt + 1
    /\ \A f \in net : f.handle \in Live /\ f.attempt = promises[f.handle].attempt
    /\ PromiseSettled
          => /\ outcome.promise.attempts <= 3
             /\ outcome.status = "resolved"
                   => /\ outcome.handle \notin Live
                      /\ \A f \in net : f.handle # outcome.handle
                      /\ \A t \in timers : t.handle # outcome.handle

C6_Witness ==
    /\ PromiseSettled
    /\ outcome.status = "resolved"
    /\ outcome.promise.attempts = 3
    /\ outcome.promise.failure = "HTTP 503"

\* The delays waited before attempts 2, 3, ... of a promise are 500, 1000, ...
DelaysAsSpecified(p) ==
    /\ Len(p.delays) = p.attempts - 1
    /\ \A n \in 1..Len(p.delays) : p.delays[n] = 500 * (2 ^ (n - 1))
    /\ \A n \in 1..(Len(p.delays) - 1) : p.delays[n] < p.delays[n + 1]

\* C7: attempt n+1 of a call starts only once attempt n has failed and
\* 500 * 2^n ms have passed since; a promise never has two fetches outstanding
\* nor one while it waits; it does not wait after its last attempt and rejects
\* without delay.
C7_SequentialBackoff ==
    /\ \A h \in DOMAIN promises :
          /\ DelaysAsSpecified(promises[h])
          /\ Cardinality({f \in net : f.handle = h}) <= 1
          /\ promises[h].phase = "backoff"
                => /\ \A f \in net : f.handle # h
                   /\ promises[h].attempts <= 2
                   /\ promises[h].slept + promises[h].wake
                          = 500 * (2 ^ promises[h].attempt)
    /\ PromiseSettled
          => /\ DelaysAsSpecified(outcome.promise)
             /\ outcome.promise.settleLag = 0

C7_Witness ==
    \E h \in Live :
        /\ promises[h].delays = <<500, 1000>>
        /\ promises[h].phase = "fetch"
        /\ \E f \in net : f.handle = h /\ f.attempt = 2 /\ f.elapsed = 0

\* C8: when an attempt succeeds the key's cache entry holds the payload with
\* age 0, the key has left the in-flight map, and every caller that awaited
\* the request has received exactly the stored payload.
C8_SuccessStored ==
    (PromiseSettled /\ outcome.status = "resolved")
    => /\ MapHas(cache, outcome.key)
       /\ cache[outcome.key].age = 0
       /\ ~MapHas(pendingRequests, outcome.key)
       /\ Len(outcome.delivered) >= 1
       /\ \A i \in Delivered :
             /\ outcome.delivered[i].status = "resolved"
             /\ outcome.delivered[i].value = cache[outcome.key].data
       /\ \A i \in Waiting : calls[i].handle # outcome.handle

C8_Witness ==
    /\ PromiseSettled
    /\ outcome.status = "resolved"
    /\ Len(outcome.delivered) = 2
    /\ outcome.promise.attempts = 2
    /\ cache[outcome.key].data = "d1"

\* C9: when the last attempt fails the key leaves the in-flight map and every
\* caller is rejected with the error of that last attempt; no failed promise
\* is kept, so no call ever waits on, or is answered by, a request that has
\* already failed.
C9_RejectsWithLastError ==
    /\ (PromiseSettled /\ outcome.status = "rejected")
          => /\ ~MapHas(pendingRequests, outcome.key)
             /\ outcome.promise.attempts = 3
             /\ outcome.promise.failure # None
             /\ Len(outcome.delivered) >= 1
             /\ \A i \in Delivered :
                   /\ outcome.delivered[i].status = "rejected"
                   /\ outcome.delivered[i].value = outcome.promise.failure
             /\ \A i \in Waiting : calls[i].handle # outcome.handle
    /\ \A h \in DOMAIN promises : ~Settled(promises[h])
    /\ \A i \in Waiting : calls[i].handle \in Live

C9_Witness ==
    /\ PromiseSettled
    /\ outcome.status = "rejected"
    /\ outcome.promise.clientErrorAt = 1
    /\ outcome.value = "Request timed out"
    /\ Len(outcome.delivered) = 2

\* C10: an abort timer is armed exactly for the attempt that still waits for
\* its response, due 10000 ms after that attempt began; the timer of an attempt
\* that has ended is gone; a promise that waits between attempts has no fetch
\* outstanding; and a timeout is retried like any other failure.
C10_AttemptTimeout ==
    /\ \A t \in timers :
          /\ t.handle \in Live
          /\ promises[t.handle].phase = "fetch"
          /\ promises[t.handle].attempt = t.attempt
          /\ \E f \in net : /\ f.handle = t.handle
                            /\ f.attempt = t.attempt
                            /\ f.elapsed + t.remaining = 10000
    /\ \A h \in Live :
          /\ promises[h].phase = "fetch"
                => Cardinality({t \in timers : t.handle = h}) = 1
          /\ promises[h].phase = "backoff" => \A f \in net : f.handle # h
    /\ (PromiseSettled /\ outcome.status = "rejected"
           /\ outcome.value = "Request timed out")
          => outcome.promise.attempts = 3

C10_Witness ==
    \E h \in Live :
        /\ promises[h].failure = "Request timed out"
        /\ promises[h].phase = "fetch"
        /\ promises[h].attempt = 1
        /\ \E t \in timers : t.handle = h /\ t.attempt = 1 /\ t.remaining = 5000

----------------------------------------------------------------------------
\* The candle synthesis on its own: a payload and a variant are given, and the
\* synthesis of updateCandlestickChart is applied to them.
SynthInputs ==
    {[data |-> d, variant |-> v] :
        d \in {Payload(ps) : ps \in SeqsUpTo(SalePoints, MaxPoints)} \cup {NoDataPoints},
        v \in Variants}

SynthInit ==
    /\ RequestIdle
    /\ LightweightCharts = Defined
    /\ ChartIdle
    /\ input \in SynthInputs
    /\ output = NoOutput
    /\ ProxyIdle
    /\ PageIdle
    /\ AppIdle

Synthesise ==
    /\ ~output.done
    /\ output' = [threw |-> Synthesize(input.data, input.variant).threw,
                  series |-> Synthesize(input.data, input.variant).series,
                  done |-> TRUE]
    /\ UNCHANGED <<input, vars, chartVars, proxyVars, pageVars, appVars>>

SynthNext == Synthesise

SynthSpec == SynthInit /\ [][SynthNext]_synthVars

----------------------------------------------------------------------------
\* The loaders of the page: loadSummaryData, loadChartData and loadSalesTable
\* (lines 1078-1187), and loadAllData (lines 1758-1764), which init() and
\* the interval timer call.
REFRESH_INTERVAL == 60000

\* The range buttons pressed here, of '7d', '30d', '90d' and 'all'.
Ranges == {"30d", "7d"}

\* The urls the loaders ask for.  The page runs on 2024-03-27: the start
\* date of '30d' is 2024-02-26 and that of '7d' is 2024-03-20 (lines
\* 1148-1161).
SummaryUrl == "/summary"
SalesUrl(variant) ==
    CASE variant = "all" -> "/sales"
      [] variant = "jumbo" -> "/sales/jumbo"
ChartUrl(variant, range) ==
    CASE variant = "all" /\ range = "30d" -> "/chart/all?start_date=2024-02-26"
      [] variant = "all" /\ range = "7d" -> "/chart/all?start_date=2024-03-20"
      [] variant = "jumbo" /\ range = "30d" -> "/chart/jumbo?start_date=2024-02-26"
      [] variant = "jumbo" /\ range = "7d" -> "/chart/jumbo?start_date=2024-03-20"
ChartUrls == {ChartUrl(variant, range) : variant \in Variants, range \in Ranges}

\* The variant a loadChartData call was made with, and the range that was
\* current then: both are in its url.
VariantOf(url) ==
    CHOOSE variant \in Variants : \E range \in Ranges : url = ChartUrl(variant, range)
RangeOf(url) ==
    CHOOSE range \in Ranges : \E variant \in Variants : url = ChartUrl(variant, range)

\* What the server has for a variant and a start date.
ChartData(variant, range) ==
    Payload(SelectSeq(<<Point(1000, Num(100), "jumbo", 20240301),
                        Point(2000, Num(200), "breakers_delight", 20240320),
                        Point(3000, Num(110), "jumbo", 20240325)>>,
                      LAMBDA pt : /\ variant = "all" \/ pt.variant = variant
                                  /\ range = "30d" \/ pt.date >= 20240320))
Unsuccessful == [success |-> FALSE]

\* The object response.json() made of the body of a chart request: the body
\* "d1" is the server's payload for the url, the body "d2" is
\* { success: false, ... }.
ChartJson(url, body) ==
    IF body = "d1" THEN ChartData(VariantOf(url), RangeOf(url)) ELSE Unsuccessful

\* A synchronous run of fetchAPI(url) calls, for different urls, in order.
RECURSIVE AfterCalls(_, _)
AfterCalls(st, urls) ==
    IF urls = <<>> THEN st
    ELSE AfterCalls(AfterFetchAPI(st, Head(urls), FALSE), Tail(urls))

\* loadAllData(), lines 1758-1764: the three loaders run to their await.
LoadAllDataUrls ==
    <<SummaryUrl, ChartUrl(currentVariant, currentRange), SalesUrl("all")>>

\* The loadChartData calls among the callers a step has resumed; the
\* other loaders write to the cards and the table only.
ChartCalls(delivered) == SelectSeq(delivered, LAMBDA c : c.key \in ChartUrls)

\* init() resumes from await loadAllData() (line 1842) once the three
\* loaders it started have run on to their end, and sets the interval timer
\* (line 1845).
SetInterval ==
    IF started' /\ refreshTimer = NoTime /\ booting' = {} /\ resuming' = <<>>
    THEN REFRESH_INTERVAL
    ELSE refreshTimer

----------------------------------------------------------------------------
\* The chart as a state machine: init(), the data updates that loadChartData
\* hands to updateCandlestickChart, the theme button and the resize listener.
MaxUpdates == 3

\* Sales of twelve days, two of them on the latest day, in no date order.
TwelveDays ==
    [i \in 1..13 |->
        IF i = 13 THEN Point(13000, Num(90), "hobby", 20240312)
        ELSE Point(1000 * i, Num(100 + 10 * ((i * 5) % 12)), "jumbo",
                   20240301 + ((i * 5) % 12))]

\* The payloads the updates bring: the sales of two variants, no sale, a
\* payload without data_points, a label that names an inherited property, a
\* point without a price, sales with equal timestamps, and the sales of more
\* days than the summary shows.
Feeds ==
    { Payload(<<Point(1000, Num(100), "jumbo", 20240301),
                Point(1000, Num(200), "breakers_delight", 20240301),
                Point(2000, Num(110), "jumbo", 20240302)>>),
      Payload(<<>>),
      NoDataPoints,
      Payload(<<Point(1000, Num(100), "constructor", 20240301)>>),
      Payload(<<Point(1000, NaN, "jumbo", 20240301),
                Point(1000, Num(50), "hobby", 20240301)>>),
      Payload(<<Point(2000, Num(120), "jumbo", 20240302),
                Point(1000, Num(110), "jumbo", 20240301),
                Point(1000, Num(100), "jumbo", 20240301)>>),
      Payload(TwelveDays) }

\* The longest run of calls one update makes after the removals: an
\* addCandlestickSeries and a setData per variant, and fitContent.
MaxRenderCalls == 2 * Len(VariantKeys) + 1

\* The handle of the n-th series the coming update creates.
SeriesHandle(n) == <<updates + 1, n>>

\* The calls of the try block after the removals, lines 1461-1504 and
\* 1528-1542, in order.
RenderPlan(series, variant) ==
    IF variant = "all"
    THEN [i \in 1..(2 * Len(series) + 1) |->
            IF i = 2 * Len(series) + 1 THEN Call("fitContent")
            ELSE IF i % 2 = 1
                 THEN CallOn("addCandlestickSeries", SeriesHandle((i + 1) \div 2),
                             series[(i + 1) \div 2].variant, <<>>)
                 ELSE CallOn("setData", SeriesHandle(i \div 2),
                             series[i \div 2].variant, series[i \div 2].candles)]
    ELSE IF Len(series[1].candles) > 0
         THEN <<CallOn("addCandlestickSeries", SeriesHandle(1), variant, <<>>),
                CallOn("setData", SeriesHandle(1), variant, series[1].candles),
                Call("fitContent")>>
         ELSE <<CallOn("addCandlestickSeries", SeriesHandle(1), variant, <<>>)>>

\* state.chartSeries.forEach(series => { try { removeSeries } catch {} }),
\* lines 1434-1438; an exception of removeSeries is swallowed there and
\* changes nothing in the page.
RemovalSkipped(held) == <<>>
RemovalCalls(held) ==
    [i \in 1..Len(held) |-> CallOn("removeSeries", held[i], None, <<>>)]

\* The series the update pushed to state.chartSeries before the call at
\* failAt threw (failAt = 0: no call threw).  The 'all' branch pushes a series
\* after its setData (line 1501), the other branch at the end (line 1542).
PushedOntoHeld(held, series, variant, failAt) ==
    held \o [n \in 1..Len(series) |-> SeriesHandle(n)]
Pushed(held, series, variant, failAt) ==
    IF variant = "all"
    THEN SelectSeq([n \in 1..Len(series) |-> SeriesHandle(n)],
                   LAMBDA h : failAt = 0 \/ 2 * h[2] < failAt)
    ELSE IF failAt = 0 THEN <<SeriesHandle(1)>> ELSE <<>>

\* init(), lines 1822-1860, up to its await: initChart() inside its own
\* try/catch, setupEventListeners(), and loadAllData() up to the awaits of
\* its three loaders.
InitApp(createThrows) ==
    /\ ~started
    /\ createThrows => IsChartLibraryAvailable
    /\ LET r == InitChart(createThrows)
       IN  /\ chart' = r.chart
           /\ chartSeries' = r.chartSeries
           /\ chartFallbackMode' = r.chartFallbackMode
           /\ mainChart' = r.mainChart
           /\ rendering' = Did("init", r.calls, FALSE, FALSE)
    /\ started' = TRUE
    /\ probed' = LightweightCharts
    /\ Becomes(AfterCalls(Requests, LoadAllDataUrls))
    /\ resuming' = ChartCalls(outcome'.delivered)
    /\ booting' = {LoadAllDataUrls[i] : i \in 1..Len(LoadAllDataUrls)} \
                     {outcome'.delivered[i].key : i \in 1..Len(outcome'.delivered)}
    /\ refreshTimer' = SetInterval
    /\ loaded' = NoLoaded
    /\ UNCHANGED <<LightweightCharts, updates, currentVariant, currentRange,
                   salesData, page, variantFilter, loads, synthVars, proxyVars,
                   pageVars>>

\* The script of the library finishes loading.
LibraryLoads ==
    /\ LightweightCharts = Undefined
    /\ LightweightCharts' = Defined
    /\ rendering' = NoRendering
    /\ UNCHANGED <<chart, chartSeries, chartFallbackMode, mainChart,
                   started, probed, updates, vars, synthVars,
                   proxyVars, pageVars>>

\* The test of line 1418.
UseFallbackWithoutLibrary == ~IsChartLibraryAvailable
UseFallback == chartFallbackMode \/ ~IsChartLibraryAvailable

\* updateCandlestickChart(data, variant), lines 1416-1549.  createThrows: the
\* createChart of an initChart made here throws; failAt: the call of
\* RenderPlan that throws, 0 for none.
UpdateCandlestickChart(data, variant, createThrows, failAt) ==
    /\ started
    /\ updates < MaxUpdates
    /\ updates' = updates + 1
    /\ UNCHANGED <<LightweightCharts, started, probed, vars, synthVars,
                   proxyVars, pageVars>>
    /\ IF UseFallback
       THEN LET fb == RenderFallbackChart(data, mainChart)
            IN  /\ ~createThrows /\ failAt = 0
                /\ chartFallbackMode' = fb.chartFallbackMode
                /\ mainChart' = fb.mainChart
                /\ rendering' = DidWith("update", data, variant, <<>>, TRUE,
                                         fb.threw)
                /\ UNCHANGED <<chart, chartSeries>>
       ELSE LET init == IF chart = NoChart
                        THEN InitChart(createThrows)
                        ELSE [ok |-> TRUE, chart |-> chart,
                              chartSeries |-> chartSeries,
                              chartFallbackMode |-> chartFallbackMode,
                              mainChart |-> mainChart, calls |-> <<>>]
            IN  /\ createThrows => chart = NoChart
                /\ chart' = init.chart
                /\ IF ~init.ok
                   THEN LET fb == RenderFallbackChart(data, init.mainChart)
                        IN  /\ failAt = 0
                            /\ chartSeries' = init.chartSeries
                            /\ chartFallbackMode' = fb.chartFallbackMode
                            /\ mainChart' = fb.mainChart
                            /\ rendering' = DidWith("update", data, variant,
                                                     init.calls, TRUE, fb.threw)
                   ELSE LET held == init.chartSeries
                            plan == Synthesize(data, variant)
                            render == IF plan.threw THEN <<>>
                                      ELSE RenderPlan(plan.series, variant)
                            made == IF failAt = 0 THEN render
                                    ELSE SubSeq(render, 1, failAt)
                            caught == plan.threw \/ failAt # 0
                            fb == RenderFallbackChart(data, init.mainChart)
                        IN  /\ failAt <= Len(render)
                            /\ chartSeries' =
                                 IF plan.threw THEN <<>>
                                 ELSE Pushed(held, plan.series, variant, failAt)
                            /\ chartFallbackMode' =
                                 IF caught THEN fb.chartFallbackMode
                                 ELSE init.chartFallbackMode
                            /\ mainChart' =
                                 IF caught THEN fb.mainChart ELSE init.mainChart
                            /\ rendering' =
                                 DidWith("update", data, variant,
                                         init.calls \o RemovalCalls(held) \o made,
                                         caught, caught /\ fb.threw)

\* toggleTheme(), lines 1788-1806, with updateChartTheme: applyOptions on the
\* chart when state.chart is set.  throws: applyOptions throws.
ToggleTheme(throws) ==
    /\ started
    /\ throws => chart # NoChart
    /\ rendering' = Did("theme",
                        IF chart # NoChart
                        THEN <<Call("applyOptions")>> ELSE <<>>,
                        FALSE, throws)
    /\ UNCHANGED <<LightweightCharts, chart, chartSeries, chartFallbackMode,
                   mainChart, started, probed, updates, vars, synthVars,
                   proxyVars, pageVars>>

\* handleResize, lines 1397-1403: registered once createChart has returned.
\* visible: chartContainer.clientWidth > 0.
HandleResize(visible, throws) ==
    /\ chart # NoChart
    /\ throws => visible
    /\ rendering' = Did("resize",
                        IF visible THEN <<Call("applyOptions")>> ELSE <<>>,
                        FALSE, throws)
    /\ UNCHANGED <<LightweightCharts, chart, chartSeries, chartFallbackMode,
                   mainChart, started, probed, updates, vars, synthVars,
                   proxyVars, pageVars>>

ChartInit ==
    /\ RequestIdle
    /\ SynthIdle
    /\ LightweightCharts \in {Defined, Undefined}
    /\ ChartIdle
    /\ ProxyIdle
    /\ PageIdle
    /\ AppIdle

ChartNext ==
    \/ \E createThrows \in BOOLEAN : InitApp(createThrows)
    \/ /\ LibraryLoads
       /\ UNCHANGED appVars
    \/ /\ \E data \in Feeds, variant \in Variants, createThrows \in BOOLEAN,
             failAt \in 0..MaxRenderCalls :
               UpdateCandlestickChart(data, variant, createThrows, failAt)
       /\ UNCHANGED appVars
    \/ /\ \E throws \in BOOLEAN : ToggleTheme(throws)
       /\ UNCHANGED appVars
    \/ /\ \E visible \in BOOLEAN, throws \in BOOLEAN : HandleResize(visible, throws)
       /\ UNCHANGED appVars

ChartSpec == ChartInit /\ [][ChartNext]_chartVars

----------------------------------------------------------------------------
\* The service worker as a state machine.
MaxEvents == 3

\* What cache.addAll stores at install: the release the server has then.
Precached == Response(TRUE, "release 1")

\* A cache of an earlier version: the document of its time.
OldEntries == [path \in {<<>>} |-> Response(TRUE, "release 1")]

\* A step of the lifecycle, which concerns no fetch event.
Lifecycle(op) ==
    Answer(op, 0, None, <<>>, FALSE, FALSE, None, NoResponse, FALSE)

\* 'install', lines 20-22: the listener hands the chain to waitUntil and
\* returns with caches.open(CACHE_NAME) called.
Install ==
    /\ worker = "parsed"
    /\ worker' = "installing"
    /\ chain' = "open"
    /\ answer' = Lifecycle("install")
    /\ UNCHANGED <<cacheStorage, deleting, inflight, fetchEvents, served, routes,
                   vars, chartVars, synthVars, pageVars, appVars>>

\* caches.open resolves, having created the cache unless it exists, and the
\* callback of lines 23-26 calls cache.addAll(STATIC_ASSETS).
CacheOpens ==
    /\ chain = "open"
    /\ chain' = "addAll"
    /\ cacheStorage' = MapSet(cacheStorage, CACHE_NAME,
                              IF CACHE_NAME \in DOMAIN cacheStorage
                              THEN cacheStorage[CACHE_NAME] ELSE EmptyMap)
    /\ answer' = Lifecycle("open")
    /\ UNCHANGED <<worker, deleting, inflight, fetchEvents, served, routes, vars,
                   chartVars, synthVars, pageVars, appVars>>

\* cache.addAll settles.  ok: every asset could be fetched, all are stored and
\* the callback of line 27 calls skipWaiting; otherwise addAll rejects,
\* nothing is stored and the installation fails.
AddAllSettles(ok) ==
    /\ chain = "addAll"
    /\ IF ok
       THEN /\ cacheStorage' = AddAll(cacheStorage, CACHE_NAME, Precached)
            /\ chain' = "skipWaiting"
            /\ UNCHANGED worker
       ELSE /\ chain' = None
            /\ worker' = "redundant"
            /\ UNCHANGED cacheStorage
    /\ answer' = Lifecycle("addAll")
    /\ UNCHANGED <<deleting, inflight, fetchEvents, served, routes, vars,
                   chartVars, synthVars, pageVars, appVars>>

\* self.skipWaiting() resolves and with it the promise of waitUntil: the
\* worker is installed, and does not wait for the pages of an older worker.
SkipWaiting ==
    /\ chain = "skipWaiting"
    /\ chain' = None
    /\ worker' = "installed"
    /\ answer' = Lifecycle("skipWaiting")
    /\ UNCHANGED <<cacheStorage, deleting, inflight, fetchEvents, served, routes,
                   vars, chartVars, synthVars, pageVars, appVars>>

\* 'activate', lines 32-34: the listener hands the chain to waitUntil and
\* returns with caches.keys() called; no delete has been started.
Activate ==
    /\ worker = "installed"
    /\ worker' = "activating"
    /\ chain' = "keys"
    /\ answer' = Lifecycle("activate")
    /\ UNCHANGED <<cacheStorage, deleting, inflight, fetchEvents, served, routes,
                   vars, chartVars, synthVars, pageVars, appVars>>

\* .then(() => self.clients.claim()), lines 43-44: Promise.all is resolved
\* once no delete is outstanding, and its callback runs in the task that
\* resolved it.  The step of the chain that is outstanding after such a task.
ClaimClients(left) == IF left = {} THEN "claim" ELSE "delete"

\* caches.keys() resolves with the names stored then, and the callback of
\* lines 35-42 calls caches.delete for each name that is not CACHE_NAME; with
\* no such name clients.claim() is called at once.
KeysResolve ==
    /\ chain = "keys"
    /\ deleting' = Stale(DOMAIN cacheStorage)
    /\ chain' = ClaimClients(deleting')
    /\ answer' = Lifecycle("keys")
    /\ UNCHANGED <<worker, cacheStorage, inflight, fetchEvents, served, routes,
                   vars, chartVars, synthVars, pageVars, appVars>>

\* One caches.delete(name) of the Promise.all completes; after the last one
\* clients.claim() is called.
DeleteCache(name) ==
    /\ chain = "delete"
    /\ name \in deleting
    /\ deleting' = deleting \ {name}
    /\ chain' = ClaimClients(deleting')
    /\ cacheStorage' = MapDelete(cacheStorage, name)
    /\ answer' = Lifecycle("delete")
    /\ UNCHANGED <<worker, inflight, fetchEvents, served, routes, vars,
                   chartVars, synthVars, pageVars, appVars>>

\* clients.claim() resolves and with it the promise of waitUntil: the worker
\* is active and receives the fetch events of the pages.
Activated ==
    /\ chain = "claim"
    /\ chain' = None
    /\ worker' = "activated"
    /\ answer' = Lifecycle("activated")
    /\ UNCHANGED <<cacheStorage, deleting, inflight, fetchEvents, served, routes,
                   vars, chartVars, synthVars, pageVars, appVars>>

\* 'message', lines 105-109: skipWaiting on request, at any time of the
\* worker's life; the worker of this file skips waiting at install already.
Message(data) ==
    /\ worker \in {"installing", "installed", "activating", "activated"}
    /\ answer' = Lifecycle("message")
    /\ UNCHANGED <<worker, chain, cacheStorage, deleting, inflight, fetchEvents,
                   served, routes, vars, chartVars, synthVars, pageVars, appVars>>

\* 'fetch', lines 48-72, the listener up to its return: the method test, the
\* API test with its fetch, or the call of caches.match, whose promise is
\* handed to respondWith.  Whose fetch the event is for (routes) is for the
\* browser to say, here and where a fetch of the worker settles.
FetchEvent(method, path) ==
    /\ worker = "activated"
    /\ fetchEvents < MaxEvents
    /\ fetchEvents' = fetchEvents + 1
    /\ UNCHANGED <<worker, chain, cacheStorage, deleting, served, vars, chartVars,
                   synthVars, pageVars, appVars>>
    /\ LET id == fetchEvents + 1
           again == path \in served
       IN  IF ~Intercepts(method)
           THEN /\ answer' = Answer("fetch", id, method, path, FALSE, FALSE,
                                    None, NoResponse, again)
                /\ UNCHANGED inflight
           ELSE IF IsApi(path)
           THEN /\ inflight' = inflight \cup {Pending(id, "api", path, NoResponse, again)}
                /\ answer' = Answer("fetch", id, method, path, FALSE, FALSE,
                                    None, NoResponse, again)
           ELSE /\ inflight' =
                      inflight \cup {Pending(id, "match", path, NoResponse, again)}
                /\ answer' = Answer("fetch", id, method, path, TRUE, FALSE,
                                    None, NoResponse, again)

\* caches.match reads the storage, at a moment of the platform's choice
\* between its call and its resolution: the entry it finds then is the one
\* it resolves with.
MatchReads(op) ==
    /\ op \in inflight
    /\ op.kind = "match"
    /\ inflight' =
          (inflight \ {op}) \cup
          {Pending(op.id, "matched", op.path, Match(cacheStorage, op.path),
                   op.again)}
    /\ answer' = Answer("read", op.id, "GET", op.path, TRUE, FALSE, None,
                        NoResponse, op.again)
    /\ UNCHANGED <<worker, chain, cacheStorage, deleting, fetchEvents, served,
                   routes, vars, chartVars, synthVars, pageVars, appVars>>

\* .then((cachedResponse) => ...), lines 73-100, when caches.match has
\* resolved: a hit answers with the entry and starts the revalidation, a miss
\* starts the fetch whose answer will be handed on.
MatchResolves(op) ==
    /\ op \in inflight
    /\ op.kind = "matched"
    /\ LET cachedResponse == op.response
       IN  IF AnswersFromCache(cachedResponse)
           THEN /\ inflight' =
                      (inflight \ {op}) \cup
                      {Pending(op.id, "revalidate", op.path, NoResponse, op.again)}
                /\ answer' = Answer("match", op.id, "GET", op.path, TRUE, TRUE,
                                    "cache", cachedResponse, op.again)
                /\ served' = served \cup {op.path}
           ELSE /\ inflight' =
                      (inflight \ {op}) \cup
                      {Pending(op.id, "miss", op.path, NoResponse, op.again)}
                /\ answer' = Answer("match", op.id, "GET", op.path, TRUE, FALSE,
                                    None, NoResponse, op.again)
                /\ UNCHANGED served
    /\ UNCHANGED <<worker, chain, cacheStorage, deleting, fetchEvents, routes,
                   vars, chartVars, synthVars, pageVars, appVars>>

\* A fetch(request) of the worker is answered by the server.  An API answer
\* is handed on as it is (line 58); the answer of a miss is handed on and, if
\* ok, a put of its clone is started (lines 90-99); the answer of a
\* revalidation is, if ok, put and otherwise dropped (lines 77-83).
NetworkResponds(op, response) ==
    /\ op \in inflight
    /\ op.kind \in {"api", "miss", "revalidate"}
    /\ inflight' =
          (inflight \ {op}) \cup
          (IF op.kind # "api" /\ Stores(response)
           THEN {Pending(op.id, "put", op.path, response, op.again)} ELSE {})
    /\ answer' = IF op.kind = "revalidate"
                 THEN Answer("network", op.id, "GET", op.path, FALSE, FALSE,
                             None, response, op.again)
                 ELSE Answer("network", op.id, "GET", op.path, FALSE, TRUE,
                             "network", response, op.again)
    /\ served' = IF op.kind = "miss" /\ response.ok
                 THEN served \cup {op.path} ELSE served
    /\ UNCHANGED <<worker, chain, cacheStorage, deleting, fetchEvents, vars,
                   chartVars, synthVars, pageVars, appVars>>

\* A fetch(request) of the worker rejects: the network is unreachable.  The
\* API branch answers with OfflineResponse (lines 59-66), a miss has no
\* catch and rejects the promise of respondWith, a revalidation ignores it
\* (line 84).
NetworkFails(op) ==
    /\ op \in inflight
    /\ op.kind \in {"api", "miss", "revalidate"}
    /\ inflight' = inflight \ {op}
    /\ answer' = CASE op.kind = "api" ->
                        Answer("failure", op.id, "GET", op.path, FALSE, TRUE,
                               "synthesized", OfflineResponse, op.again)
                   [] op.kind = "miss" ->
                        Answer("failure", op.id, "GET", op.path, FALSE, TRUE,
                               "error", NoResponse, op.again)
                   [] op.kind = "revalidate" ->
                        Answer("failure", op.id, "GET", op.path, FALSE, FALSE,
                               None, NoResponse, op.again)
    /\ UNCHANGED <<worker, chain, cacheStorage, deleting, fetchEvents, served,
                   vars, chartVars, synthVars, pageVars, appVars>>

\* A cache.put(request, response) started at line 80 or 95 completes.
PutCompletes(op) ==
    /\ op \in inflight
    /\ op.kind = "put"
    /\ inflight' = inflight \ {op}
    /\ cacheStorage' = Put(cacheStorage, CACHE_NAME, op.path, op.response)
    /\ answer' = Answer("put", op.id, "GET", op.path, FALSE, FALSE, None,
                        op.response, op.again)
    /\ UNCHANGED <<worker, chain, deleting, fetchEvents, served, routes, vars,
                   chartVars, synthVars, pageVars, appVars>>

\* The responses the server may give.
Responses == {Response(TRUE, body) : body \in Bodies} \cup {Response(FALSE, ErrorPage)}

ProxyInit ==
    /\ RequestIdle
    /\ LightweightCharts = Defined
    /\ ChartIdle
    /\ SynthIdle
    /\ PageIdle
    /\ AppIdle
    /\ worker = "parsed"
    /\ chain = None
    /\ cacheStorage \in {[name \in names |-> OldEntries] : names \in SUBSET OldCacheNames}
    /\ deleting = {}
    /\ inflight = {}
    /\ fetchEvents = 0
    /\ served = {}
    /\ answer = NoAnswer
    /\ routes = {}

\* The fetch events of ProxySpec are those of any client: none is followed to
\* the fetch it is for.
ProxyNext ==
    \/ Install
    \/ CacheOpens
    \/ \E ok \in BOOLEAN : AddAllSettles(ok)
    \/ SkipWaiting
    \/ Activate
    \/ KeysResolve
    \/ \E name \in OldCacheNames : DeleteCache(name)
    \/ Activated
    \/ \E data \in {"skipWaiting"} : Message(data)
    \/ /\ \E method \in Methods, path \in Paths : FetchEvent(method, path)
       /\ UNCHANGED routes
    \/ \E op \in inflight : MatchReads(op)
    \/ \E op \in inflight : MatchResolves(op)
    \/ /\ \E op \in inflight, response \in Responses : NetworkResponds(op, response)
       /\ UNCHANGED routes
    \/ /\ \E op \in inflight : NetworkFails(op)
       /\ UNCHANGED routes
    \/ \E op \in inflight : PutCompletes(op)

ProxySpec == ProxyInit /\ [][ProxyNext]_proxyVars

----------------------------------------------------------------------------
\* postAPI as a state machine.  The response cache holds an entry or not; no
\* step of postAPI refers to it.
MaxPosts == 3

\* '/scheduler/start' and '/fetch', lines 656 and 677.
PostEndpoints == {"/scheduler/start", "/fetch"}

PostIds == 1..MaxPosts

\* The catch block: console.error and throw error, unless another attempt
\* follows.
PostCatch(id, error) ==
    LET p == posts[id]
    IN  IF PostRetries(p.requests)
        THEN /\ posts' = [posts EXCEPT ![id] =
                              PostCall(p.endpoint, "fetch", p.requests + 1)]
             /\ posted' = Posted(id, p.endpoint, 1, p.requests + 1, None, None)
        ELSE /\ posts' = MapDelete(posts, id)
             /\ posted' = Posted(id, p.endpoint, 0, p.requests, "rejected", error)

\* postAPI is called: lines 157-162 up to the await of fetch().
PostAPI(id, endpoint) ==
    /\ id \notin DOMAIN posts
    /\ \A other \in PostIds : other < id => other \in DOMAIN posts
    /\ posts' = MapSet(posts, id, PostCall(endpoint, "fetch", 1))
    /\ posted' = Posted(id, endpoint, 1, 1, None, None)
    /\ UNCHANGED <<vars, chartVars, synthVars, proxyVars, appVars>>

\* fetch() resolves with a response: line 163 throws unless response.ok.
PostRespond(id, status) ==
    /\ id \in DOMAIN posts
    /\ posts[id].phase = "fetch"
    /\ IF ResponseOk(status)
       THEN /\ posts' = [posts EXCEPT ![id].phase = "body"]
            /\ posted' = Posted(id, posts[id].endpoint, 0, posts[id].requests,
                                None, None)
       ELSE PostCatch(id, HttpError(status))
    /\ UNCHANGED <<vars, chartVars, synthVars, proxyVars, appVars>>

\* fetch() rejects: the network failed.
PostNetworkFail(id) ==
    /\ id \in DOMAIN posts
    /\ posts[id].phase = "fetch"
    /\ PostCatch(id, NetworkFailure)
    /\ UNCHANGED <<vars, chartVars, synthVars, proxyVars, appVars>>

\* response.json() resolves: line 164 returns the payload.
PostBodyOk(id, data) ==
    /\ id \in DOMAIN posts
    /\ posts[id].phase = "body"
    /\ posts' = MapDelete(posts, id)
    /\ posted' = Posted(id, posts[id].endpoint, 0, posts[id].requests,
                        "resolved", data)
    /\ UNCHANGED <<vars, chartVars, synthVars, proxyVars, appVars>>

\* response.json() rejects.
PostBodyFail(id) ==
    /\ id \in DOMAIN posts
    /\ posts[id].phase = "body"
    /\ PostCatch(id, BodyFailure)
    /\ UNCHANGED <<vars, chartVars, synthVars, proxyVars, appVars>>

\* The response cache and the in-flight map when postAPI is called: empty,
\* or with a fresh entry under the endpoint of the call.
PostInit ==
    /\ cache \in {EmptyMap} \cup
                 {MapSet(EmptyMap, endpoint, [data |-> "d1", age |-> 0]) :
                     endpoint \in PostEndpoints}
    /\ pendingRequests = EmptyMap
    /\ promises = EmptyMap
    /\ calls = <<>>
    /\ net = {}
    /\ timers = {}
    /\ outcome = NoOutcome
    /\ LightweightCharts = Defined
    /\ ChartIdle
    /\ SynthIdle
    /\ ProxyIdle
    /\ PageIdle
    /\ AppIdle

PostNext ==
    \/ \E id \in PostIds, endpoint \in PostEndpoints : PostAPI(id, endpoint)
    \/ \E id \in PostIds, status \in Statuses : PostRespond(id, status)
    \/ \E id \in PostIds : PostNetworkFail(id)
    \/ \E id \in PostIds, data \in Payloads : PostBodyOk(id, data)
    \/ \E id \in PostIds : PostBodyFail(id)

PostSpec == PostInit /\ [][PostNext]_pageVars

----------------------------------------------------------------------------
\* The page behind its service worker: every fetch() of fetchAPI raises a
\* fetch event, and resolves with the response respondWith settles with.  An
\* abort of the page ends the page's fetch only: the fetch the worker started
\* for it stays outstanding, and what it is answered with later reaches
\* nobody.

\* `${API_BASE}${endpoint}`, line 1033, as a request path.
Pathname(endpoint) ==
    CASE endpoint = "/summary" -> <<"api", "summary">>
      [] OTHER -> <<"api", "chart", "all">>

\* What the server answers to an API request: a JSON document, or an error.
ApiBody == "{\"success\":true}"
ApiResponses == {Response(TRUE, ApiBody), Response(FALSE, ErrorPage)}

\* response.json(), line 1043: the value of a JSON document; any other body
\* makes it reject with a SyntaxError.
IsJson(body) ==
    body \in {"{\"success\":false,\"error\":\"You are offline\"}", ApiBody}
ParseJson(body) ==
    CASE body = "{\"success\":false,\"error\":\"You are offline\"}" ->
            [success |-> FALSE, error |-> "You are offline"]
      [] body = ApiBody -> [success |-> TRUE]

\* The fetches the browser has outstanding for the page.
FetchIds(nt) == {<<f.handle, f.attempt>> : f \in nt}

\* A fetch event raised for fetch f of the page, and what respondWith has
\* settled with (source None: nothing yet).
Route(id, f, source, response) ==
    [id |-> id, handle |-> f.handle, attempt |-> f.attempt, source |-> source,
     response |-> response]

\* The events raised for the attempt that promise h is at.
CurrentRoutes(h) ==
    {r \in routes : r.handle = h /\ r.attempt = promises[h].attempt}

\* A step of the page, as the browser sees it: a fetch of the page that ended
\* (its response was read, or it was aborted) is nobody's to answer any
\* more.  The worker is not told: its own fetch stays as it is, and the step
\* does nothing for any of its events.
Behind ==
    /\ routes' = {r \in routes : <<r.handle, r.attempt>> \in FetchIds(net')}
    /\ answer' = NoAnswer
    /\ UNCHANGED <<worker, chain, cacheStorage, deleting, inflight, fetchEvents,
                   served>>

\* A step of the worker that settles the promise of respondWith, as the
\* browser sees it: the response is held for the fetch the event was raised
\* for, if that fetch is still outstanding.
Settle ==
    routes' = {IF answer'.responded /\ r.id = answer'.id
               THEN [r EXCEPT !.source = answer'.source,
                              !.response = answer'.response]
               ELSE r : r \in routes}

\* The fetch event of a fetch() of the page that the worker has not seen.
Dispatch(f) ==
    /\ f \in net
    /\ \A r \in routes : <<r.handle, r.attempt>> # <<f.handle, f.attempt>>
    /\ FetchEvent("GET", Pathname(f.key))
    /\ routes' = routes \cup {Route(fetchEvents + 1, f, None, NoResponse)}

\* fetch() of the page resolves with the response of respondWith: lines
\* 998-1000, then 1035-1041.
Deliver(h) ==
    /\ \E r \in CurrentRoutes(h) :
          /\ r.source \in {"network", "synthesized"}
          /\ \E status \in Statuses :
                /\ ResponseOk(status) = r.response.ok
                /\ Respond(h, status)
    /\ Behind

\* response.json() of that response settles: line 1043.
ReadBody(h) ==
    /\ promises[h].phase = "body"
    /\ \E r \in CurrentRoutes(h) :
          IF IsJson(r.response.body)
          THEN BodyOk(h, ParseJson(r.response.body))
          ELSE BodyFail(h)
    /\ Behind

\* The worker is activated, with its precache.
OriginInit ==
    /\ RequestIdle
    /\ LightweightCharts = Defined
    /\ ChartIdle
    /\ SynthIdle
    /\ PageIdle
    /\ AppIdle
    /\ worker = "activated"
    /\ chain = None
    /\ cacheStorage = AddAll(EmptyMap, CACHE_NAME, Precached)
    /\ deleting = {}
    /\ inflight = {}
    /\ fetchEvents = 0
    /\ served = {}
    /\ answer = NoAnswer
    /\ routes = {}

OriginNext ==
    \/ /\ \E k \in Keys, skipCache \in BOOLEAN : FetchAPI(k, skipCache)
       /\ Behind
       /\ UNCHANGED <<chartVars, synthVars, pageVars, appVars>>
    \/ \E f \in net : Dispatch(f)
    \/ /\ \E op \in inflight, response \in ApiResponses :
             NetworkResponds(op, response)
       /\ Settle
    \/ /\ \E op \in inflight : NetworkFails(op)
       /\ Settle
    \/ /\ \E h \in DOMAIN promises : Deliver(h)
       /\ UNCHANGED <<chartVars, synthVars, pageVars, appVars>>
    \/ /\ \E h \in DOMAIN promises : ReadBody(h)
       /\ UNCHANGED <<chartVars, synthVars, pageVars, appVars>>
    \/ /\ \E t \in timers : TimerFires(t)
       /\ Behind
       /\ UNCHANGED <<chartVars, synthVars, pageVars, appVars>>
    \/ /\ \E h \in DOMAIN promises : Wake(h)
       /\ Behind
       /\ UNCHANGED <<chartVars, synthVars, pageVars, appVars>>
    \/ /\ \E d \in Gaps : Tick(d)
       /\ Behind
       /\ UNCHANGED <<chartVars, synthVars, pageVars, appVars>>

OriginSpec == OriginInit /\ [][OriginNext]_<<vars, proxyVars>>

----------------------------------------------------------------------------
\* The page as a whole: init(), the variant tabs, the range buttons, the
\* summary cards, the filter and the pagination of the table, the interval
\* timer, the request layer under them and the chart they update.
\* The continuation of a loadChartData call, lines 1164-1167, is a step of
\* its own (Resume) that runs before anything else does.
MaxLoads == 2

\* if (!data.success) throw, line 1164.
AcceptsAny(data) == TRUE
Accepts(data) == data.success

\* catch (error) { console.error(...) }, lines 1169-1171: nothing is
\* rethrown.
Rethrows(threw) == FALSE

\* What a step of the request layer brings the loaders: the loadChartData
\* calls it resumed are about to run on, and init() waits for one loader
\* less when the request of one of its urls has settled.
Loaders ==
    /\ resuming' = ChartCalls(outcome'.delivered)
    /\ booting' = IF outcome'.handle = 0 THEN booting
                  ELSE booting \ {outcome'.key}
    /\ loaded' = NoLoaded

\* A step of the request layer, seen from the page.
Page ==
    /\ resuming = <<>>
    /\ UNCHANGED <<currentVariant, currentRange, salesData, page, variantFilter,
                   loads, chartVars, synthVars, proxyVars, pageVars>>
    /\ Loaders
    /\ refreshTimer' = SetInterval

\* A control is used: the loaders it calls run to their awaits.  The page
\* takes a click once init() has registered the listeners, line 1839.
Control(urls) ==
    /\ started
    /\ resuming = <<>>
    /\ loads < MaxLoads
    /\ loads' = loads + 1
    /\ Becomes(AfterCalls(Requests, urls))
    /\ Loaders
    /\ UNCHANGED <<salesData, refreshTimer, chartVars, synthVars, proxyVars,
                   pageVars>>

\* A click on a variant tab, lines 1686-1701: loadChartData and
\* loadSalesTable for the variant, the table back on its first page.
SelectVariant(variant) ==
    /\ currentVariant' = variant
    /\ page' = 1
    /\ Control(<<ChartUrl(variant, currentRange), SalesUrl(variant)>>)
    /\ UNCHANGED <<currentRange, variantFilter>>

\* A click on a range button, lines 1705-1712.
SelectRange(range) ==
    /\ currentRange' = range
    /\ Control(<<ChartUrl(currentVariant, range)>>)
    /\ UNCHANGED <<currentVariant, page, variantFilter>>

\* The variant filter of the table changes, lines 1715-1718.
FilterVariant(value) ==
    /\ variantFilter' = value
    /\ page' = 1
    /\ Control(<<SalesUrl(value)>>)
    /\ UNCHANGED <<currentVariant, currentRange>>

\* A click on #prevPage, lines 1721-1726: nothing on the first page.
PrevPage ==
    /\ page > 1
    /\ page' = page - 1
    /\ Control(<<SalesUrl(variantFilter)>>)
    /\ UNCHANGED <<currentVariant, currentRange, variantFilter>>

\* A click on #nextPage, lines 1728-1731.
NextPage ==
    /\ page' = page + 1
    /\ Control(<<SalesUrl(variantFilter)>>)
    /\ UNCHANGED <<currentVariant, currentRange, variantFilter>>

\* A click on the summary card of a variant, lines 1734-1750: loadChartData
\* for it, the table staying as it is.
SelectCard(variant) ==
    /\ currentVariant' = variant
    /\ Control(<<ChartUrl(variant, currentRange)>>)
    /\ UNCHANGED <<currentRange, page, variantFilter>>

\* The loadChartData call at the head of the resumed ones runs on: lines
\* 1164-1167 when its fetchAPI resolved, the catch of lines 1169-1171 when it
\* rejected or when line 1164 throws.
Resume(createThrows, failAt) ==
    /\ resuming # <<>>
    /\ LET c == Head(resuming)
           variant == VariantOf(c.key)
           range == RangeOf(c.key)
           data == IF c.status = "resolved" THEN ChartJson(c.key, c.value)
                   ELSE NoDataPoints
       IN  IF c.status = "resolved" /\ Accepts(data)
           THEN /\ salesData' = data
                /\ UpdateCandlestickChart(data, variant, createThrows, failAt)
                /\ loaded' = Loaded(variant, range, "resolved", data,
                                    TRUE, Rethrows(rendering'.threw))
           ELSE /\ ~createThrows /\ failAt = 0
                /\ loaded' = Loaded(variant, range, c.status, data,
                                    FALSE, Rethrows(TRUE))
                /\ UNCHANGED <<salesData, chartVars, vars, synthVars, proxyVars,
                               pageVars>>
    /\ resuming' = Tail(resuming)
    /\ UNCHANGED <<currentVariant, currentRange, page, variantFilter, booting,
                   loads>>
    /\ refreshTimer' = SetInterval

\* The interval timer fires: loadAllData, lines 1758-1764, up to the awaits
\* of its three loaders.
Refresh ==
    /\ refreshTimer = 0
    /\ resuming = <<>>
    /\ loads < MaxLoads
    /\ loads' = loads + 1
    /\ Becomes(AfterCalls(Requests, LoadAllDataUrls))
    /\ Loaders
    /\ refreshTimer' = REFRESH_INTERVAL
    /\ UNCHANGED <<currentVariant, currentRange, salesData, page, variantFilter,
                   chartVars, synthVars, proxyVars, pageVars>>

\* Time passes, but not beyond the next firing of the interval timer.
RefreshTick(d) ==
    /\ resuming = <<>>
    /\ refreshTimer # NoTime => d <= refreshTimer
    /\ Tick(d)
    /\ Loaders
    /\ refreshTimer' = IF refreshTimer = NoTime THEN NoTime ELSE refreshTimer - d
    /\ UNCHANGED <<currentVariant, currentRange, salesData, page, variantFilter,
                   loads, chartVars, synthVars, proxyVars, pageVars>>

\* The summary cards: one per variant of the card.
Cards == Variants \ {"all"}

\* The call of the chart library that throws during a load, 0 for none: the
\* first addCandlestickSeries or the first setData.
LoadFailures == 0..2

\* The times a backoff has left.
Naps == {promises[h].wake : h \in Sleeping}

\* The requests of loadChartData calls.
ChartRequests == {h \in DOMAIN promises : promises[h].key \in ChartUrls}

\* The chart requests the server fails: those for the 'jumbo' sales of seven
\* days, while no other chart request is outstanding.
Failing ==
    {h \in ChartRequests : /\ promises[h].key = ChartUrl("jumbo", "7d")
                           /\ Cardinality(ChartRequests) = 1}

\* The page with its controls, while the server answers the chart requests
\* only, or fails them, each before its timeout: time passes while a request
\* waits to retry.
LoadInit ==
    /\ RequestIdle
    /\ SynthIdle
    /\ LightweightCharts \in {Defined, Undefined}
    /\ ChartIdle
    /\ ProxyIdle
    /\ PageIdle
    /\ AppIdle

LoadNext ==
    \/ \E createThrows \in BOOLEAN : InitApp(createThrows)
    \/ \E variant \in Variants : SelectVariant(variant)
    \/ \E range \in Ranges : SelectRange(range)
    \/ \E value \in Variants \ {variantFilter} : FilterVariant(value)
    \/ PrevPage
    \/ NextPage
    \/ \E variant \in Cards : SelectCard(variant)
    \/ /\ \E h \in ChartRequests : Respond(h, 200)
       /\ Page
    \/ /\ \E h \in Failing : NetworkFail(h)
       /\ Page
    \/ /\ \E h \in ChartRequests, data \in Payloads : BodyOk(h, data)
       /\ Page
    \/ /\ \E h \in ChartRequests : Wake(h)
       /\ Page
    \/ \E d \in Naps : RefreshTick(d)
    \/ \E createThrows \in BOOLEAN, failAt \in LoadFailures :
          Resume(createThrows, failAt)

LoadSpec == LoadInit /\ [][LoadNext]_<<vars, chartVars, appVars>>

\* The page left to itself: init() and the interval timer, with a chart
\* library that works and a server whose body is "d1" when it answers 200;
\* it may also answer an error, fail, or stay silent until the timeout, and
\* a body may take any time to be read.  At most MaxSlow urls are waited for
\* while time passes, the other requests being answered at once.
MaxSlow == 1

Waits ==
    IF Cardinality(DOMAIN pendingRequests) <= MaxSlow
    THEN Gaps \cup {refreshTimer} ELSE {}

RefreshInit ==
    /\ RequestIdle
    /\ SynthIdle
    /\ LightweightCharts = Defined
    /\ ChartIdle
    /\ ProxyIdle
    /\ PageIdle
    /\ AppIdle

RefreshNext ==
    \/ InitApp(FALSE)
    \/ Refresh
    \/ /\ \E h \in DOMAIN promises, status \in Statuses : Respond(h, status)
       /\ Page
    \/ /\ \E h \in DOMAIN promises : NetworkFail(h)
       /\ Page
    \/ /\ \E t \in timers : TimerFires(t)
       /\ Page
    \/ /\ \E h \in DOMAIN promises : BodyOk(h, "d1")
       /\ Page
    \/ /\ \E h \in DOMAIN promises : BodyFail(h)
       /\ Page
    \/ /\ \E h \in DOMAIN promises : Wake(h)
       /\ Page
    \/ \E d \in Waits : RefreshTick(d)
    \/ Resume(FALSE, 0)

RefreshSpec == RefreshInit /\ [][RefreshNext]_<<vars, chartVars, appVars>>

----------------------------------------------------------------------------
\* Shorthands used by the properties of the chart.
RenderState ==
    IF chartFallbackMode THEN "Fallback"
    ELSE IF chart # NoChart THEN "Live" ELSE "Uninitialized"

Made == 1..Len(rendering.calls)
MethodsCalled == {rendering.calls[i].method : i \in Made}

\* C11: when the charting library is undefined at the time init() probes it,
\* the render state is Fallback from then on (chartFallbackMode = true),
\* state.chart stays null, and neither initChart nor any later
\* updateCandlestickChart calls a method of the library or of a chart handle
\* (createChart, addCandlestickSeries, setData, removeSeries, fitContent),
\* also when the library becomes available afterwards.
C11_NoLibraryNoChart ==
    probed = Undefined =>
        /\ chartFallbackMode
        /\ chart = NoChart
        /\ chartSeries = <<>>
        /\ MethodsCalled = {}

\* The library was missing at init(), has loaded since, and an update ran.
C11_Witness ==
    /\ probed = Undefined
    /\ LightweightCharts = Defined
    /\ rendering.op = "update"
    /\ HasDataPoints(rendering.data)
    /\ mainChart.shows = "summary"

\* C12: once a chart call of updateCandlestickChart has thrown while the state
\* was Live (the flag is set and state.chart is still the chart), every later
\* data update goes to renderFallbackChart and no handler, the theme button
\* and the resize listener included, calls a method of the chart any more.
C12_NoCallsAfterDemotion ==
    [][(chartFallbackMode /\ chart # NoChart) =>
          /\ rendering'.calls = <<>>
          /\ rendering'.op = "update" => rendering'.fallback]_chartVars

\* C13: the render state only moves Uninitialized -> Live, Uninitialized ->
\* Fallback and Live -> Fallback; once chartFallbackMode is true no update,
\* theme switch, resize or late arrival of the library makes it false again.
C13_FallbackTerminal ==
    [][/\ chartFallbackMode => chartFallbackMode'
       /\ RenderState' # RenderState =>
            <<RenderState, RenderState'>> \in
                {<<"Uninitialized", "Live">>, <<"Uninitialized", "Fallback">>,
                 <<"Live", "Fallback">>}]_chartVars

\* Fallback was entered from Live and a further update has been served by the
\* fallback table.
C13_Witness ==
    /\ chartFallbackMode
    /\ chart # NoChart
    /\ rendering.op = "update"
    /\ rendering.calls = <<>>
    /\ updates >= 2

\* C14: updateCandlestickChart never throws into its caller, whatever the
\* payload (a payload without data_points included): an exception raised while
\* the chart is updated ends in Fallback, not in the caller.
C14_UpdateNeverThrows ==
    [][(RenderState = "Live" /\ rendering'.op = "update") =>
          ~rendering'.threw]_chartVars

\* C15: when the library is present and createChart throws, initChart catches
\* the exception, sets chartFallbackMode, returns false and leaves state.chart
\* null and state.chartSeries empty; nothing reaches init().
C15_ConstructionFailureContained ==
    /\ ("createChart" \in MethodsCalled /\ chart = NoChart) =>
          /\ chartFallbackMode
          /\ chartSeries = <<>>
          /\ mainChart.shows # "chart"
          /\ rendering.op = "init" => ~rendering.threw
          /\ rendering.op = "update" => rendering.fallback
    /\ (~started /\ IsChartLibraryAvailable) =>
          /\ ~InitChart(TRUE).ok
          /\ InitChart(TRUE).chart = NoChart
          /\ InitChart(TRUE).chartFallbackMode

\* init() ran with the library present and createChart threw.
C15_Witness ==
    /\ rendering.op = "init"
    /\ probed = Defined
    /\ "createChart" \in MethodsCalled
    /\ chart = NoChart

\* The handles of the calls of one method in a log, in call order.
HandlesOf(log, method) ==
    LET picked == SelectSeq(log, LAMBDA c : c.method = method)
    IN  [i \in 1..Len(picked) |-> picked[i].series]

\* The variants of VariantKeys that have a point in the payload.
VariantsPresent(points) ==
    {points[i].variant : i \in 1..Len(points)}
        \cap {VariantKeys[n] : n \in 1..Len(VariantKeys)}

\* C16: a data update that is processed in Live state calls removeSeries for
\* every series handle the page held, before it adds any series, and then adds
\* one series per variant that has a point ('all') or exactly one series (a
\* single variant): afterwards state.chartSeries consists of the handles this
\* update created, each once, and of no handle of an earlier update.
C16_SeriesReplaced ==
    [][(rendering'.op = "update" /\ ~rendering'.fallback) =>
          LET log == rendering'.calls
              points == rendering'.data.data_points
              held == {chartSeries[i] : i \in 1..Len(chartSeries)}
          IN  /\ HandlesOf(log, "removeSeries") = chartSeries
              /\ \A i, j \in 1..Len(log) :
                    (log[i].method = "removeSeries"
                        /\ log[j].method = "addCandlestickSeries") => i < j
              /\ chartSeries' = HandlesOf(log, "addCandlestickSeries")
              /\ Len(chartSeries') =
                    IF rendering'.variant = "all"
                    THEN Cardinality(VariantsPresent(points)) ELSE 1
              /\ \A i, j \in 1..Len(chartSeries') :
                    chartSeries'[i] = chartSeries'[j] => i = j
              /\ \A i \in 1..Len(chartSeries') : chartSeries'[i] \notin held]_chartVars

\* An update in Live state has replaced the series of an earlier update by
\* the two series of its payload.
C16_Witness ==
    /\ rendering.op = "update"
    /\ ~rendering.fallback
    /\ rendering.variant = "all"
    /\ "removeSeries" \in MethodsCalled
    /\ Len(chartSeries) = 2
    /\ ~chartFallbackMode

----------------------------------------------------------------------------
\* Shorthands used by the properties of the candle synthesis.
Produced == output.done /\ ~output.threw
InputPoints == input.data.data_points
Emitted == 1..Len(output.series)

\* The points behind the candles of the n-th emitted series, in candle order.
SourcePoints(n) ==
    IF input.variant = "all"
    THEN SortByX(GroupOf(InputPoints, output.series[n].variant))
    ELSE SortByX(InputPoints)

\* The synthetic second of a point before the offset of its variant is added.
PlainTime(point, i) == (point.x \div 1000) + 3600 * (i - 1)

\* C17: every candle made from a point whose price is above zero has
\* high >= open >= low and high >= close >= low, with 'all' as with a single
\* variant.
C17_CandleOrdered ==
    Produced =>
        \A n \in Emitted :
            \A i \in 1..Len(output.series[n].candles) :
                LET c == output.series[n].candles[i]
                    price == SourcePoints(n)[i].y
                IN  (~price.nan /\ price.val > 0) =>
                        /\ ~c.open.nan /\ ~c.high.nan /\ ~c.low.nan /\ ~c.close.nan
                        /\ c.high.val >= c.open.val /\ c.open.val >= c.low.val
                        /\ c.high.val >= c.close.val /\ c.close.val >= c.low.val

\* A candle with a body was made from a price above zero and another from a
\* price below zero.
C17_Witness ==
    /\ Produced
    /\ \E n \in Emitted :
          /\ \E i \in 1..Len(output.series[n].candles) :
                /\ ~SourcePoints(n)[i].y.nan
                /\ SourcePoints(n)[i].y.val > 0
                /\ output.series[n].candles[i].high.val
                     > output.series[n].candles[i].low.val
          /\ \E i \in 1..Len(output.series[n].candles) :
                /\ ~SourcePoints(n)[i].y.nan
                /\ SourcePoints(n)[i].y.val < 0

\* C18: in every emitted series each candle's time is at least 3600 seconds
\* after the time of the candle before it, whatever the timestamps of the
\* points (equal, or less than a second apart): the times are strictly
\* increasing in output order.
C18_TimesIncrease ==
    Produced =>
        \A n \in Emitted :
            \A i \in 2..Len(output.series[n].candles) :
                output.series[n].candles[i].time
                    >= output.series[n].candles[i - 1].time + 3600

\* A series of three candles came from points given out of order, two with the
\* same timestamp and one less than a second later.
C18_Witness ==
    /\ Produced
    /\ Len(InputPoints) = 3
    /\ InputPoints[1].x > InputPoints[2].x
    /\ \E n \in Emitted :
          /\ Len(output.series[n].candles) = 3
          /\ SourcePoints(n)[1].x = SourcePoints(n)[2].x
          /\ SourcePoints(n)[3].x - SourcePoints(n)[2].x \in 1..999

\* C19: with 'all', the emitted series are those of the variants jumbo,
\* breakers_delight and hobby that have a point in the payload, one series
\* each, with one candle per point of the variant; a variant without a point
\* gets no series, not an empty one.
C19_SeriesPerVariant ==
    (Produced /\ input.variant = "all") =>
        /\ {output.series[n].variant : n \in Emitted} = VariantsPresent(InputPoints)
        /\ Len(output.series) = Cardinality(VariantsPresent(InputPoints))
        /\ \A n \in Emitted :
              /\ Len(output.series[n].candles) > 0
              /\ Len(output.series[n].candles) =
                    Cardinality({i \in 1..Len(InputPoints) :
                                    InputPoints[i].variant = output.series[n].variant})

\* Two jumbo points and one breakers_delight point gave two series, of two
\* candles and of one, and none for hobby.
C19_Witness ==
    /\ Produced
    /\ input.variant = "all"
    /\ Len(InputPoints) = 3
    /\ Len(output.series) = 2
    /\ output.series[1].variant = "jumbo"
    /\ Len(output.series[1].candles) = 2
    /\ output.series[2].variant = "breakers_delight"
    /\ Len(output.series[2].candles) = 1

\* C20 as claimed: with 'all', no two candles of different variants have the
\* same synthetic time.
C20_NoCollision ==
    (Produced /\ input.variant = "all") =>
        \A n, m \in Emitted :
            n # m =>
                \A i \in 1..Len(output.series[n].candles),
                   j \in 1..Len(output.series[m].candles) :
                    output.series[n].candles[i].time
                        # output.series[m].candles[j].time

\* C20 as amended: with 'all', two candles of different variants that would
\* fall on the same synthetic second without the offsets (same
\* floor(x / 1000) + index * 3600) get different synthetic times.
C20_OffsetsSeparate ==
    (Produced /\ input.variant = "all") =>
        \A n, m \in Emitted :
            n # m =>
                \A i \in 1..Len(output.series[n].candles),
                   j \in 1..Len(output.series[m].candles) :
                    PlainTime(SourcePoints(n)[i], i) = PlainTime(SourcePoints(m)[j], j)
                        => output.series[n].candles[i].time
                            # output.series[m].candles[j].time

\* Points of two variants with the same timestamp were given.
C20_Witness ==
    /\ Produced
    /\ input.variant = "all"
    /\ \E n, m \in Emitted :
          /\ n # m
          /\ SourcePoints(n)[1].x = SourcePoints(m)[1].x
          /\ output.series[n].candles[1].time # output.series[m].candles[1].time

\* The labels updateCandlestickChart knows: the keys of variantGroups.
KnownVariants == {VariantKeys[n] : n \in 1..Len(VariantKeys)}

\* The payload of the input without the points whose label is not known.
KnownOnly ==
    Payload(SelectSeq(InputPoints, LAMBDA point : point.variant \in KnownVariants))

\* C21: with 'all', a point whose label is not one of the known variants is
\* dropped when the points are grouped: the synthesis raises no error because
\* of it and emits what it emits for the payload without such points.
C21_UnknownLabelDropped ==
    (output.done /\ input.variant = "all" /\ HasDataPoints(input.data)) =>
        /\ ~output.threw
        /\ output.series = Synthesize(KnownOnly, "all").series

\* The points with a price, and with a known label when the variant is 'all'.
WellFormed(n) ==
    SelectSeq(InputPoints,
              LAMBDA point :
                  /\ ~point.y.nan
                  /\ input.variant = "all" => point.variant = output.series[n].variant)

\* C22: a point that lacks a required field (a point without a price y) is
\* dropped and is not fatal: no candle is made from it, and every series has
\* one candle, with numbers for open, high, low and close, per well-formed
\* point.
C22_MalformedPointDropped ==
    Produced =>
        \A n \in Emitted :
            /\ Len(output.series[n].candles) = Len(WellFormed(n))
            /\ \A i \in 1..Len(output.series[n].candles) :
                  LET c == output.series[n].candles[i]
                  IN  ~c.open.nan /\ ~c.high.nan /\ ~c.low.nan /\ ~c.close.nan

----------------------------------------------------------------------------
\* The series a log hands to the chart, without their handles: the titles of
\* the series added and the candles set, in call order.
SeriesHanded(log) ==
    LET picked == SelectSeq(log, LAMBDA c : c.method \in {"addCandlestickSeries",
                                                          "setData"})
    IN  [i \in 1..Len(picked) |->
            [method |-> picked[i].method, variant |-> picked[i].variant,
             candles |-> picked[i].candles]]

\* The place of the i-th point among the points ordered by timestamp, equal
\* timestamps in input order.
RankByX(points, i) ==
    1 + Cardinality({j \in 1..Len(points) :
                        \/ points[j].x < points[i].x
                        \/ points[j].x = points[i].x /\ j < i})

\* The candles of a setData call are those of the points of its series, each
\* at its rank.
InInputOrder(call, points, variant) ==
    LET own == IF variant = "all"
               THEN SelectSeq(points, LAMBDA point : point.variant = call.variant)
               ELSE points
        offsetSeconds == IF variant = "all" THEN VariantOffset(call.variant) ELSE 0
        perMille == IF variant = "all" THEN VARIANCE_OVERLAY ELSE VARIANCE_SINGLE
    IN  /\ Len(call.candles) = Len(own)
        /\ \A i \in 1..Len(own) :
              call.candles[RankByX(own, i)] =
                  Candle(own[i], RankByX(own, i) - 1, offsetSeconds, perMille)

\* C23: two updates in a row with the same payload and the same variant, both
\* processed in Live state, hand the same series to the chart (same titles,
\* same candles in the same order); the second removes every series the
\* first left, and its candles depend on the points only, points with equal
\* timestamps keeping their input order.
C23_RefreshIdempotent ==
    [][(/\ rendering.op = "update" /\ ~rendering.fallback
        /\ rendering'.op = "update" /\ ~rendering'.fallback
        /\ rendering'.data = rendering.data
        /\ rendering'.variant = rendering.variant) =>
          /\ SeriesHanded(rendering'.calls) = SeriesHanded(rendering.calls)
          /\ HandlesOf(rendering'.calls, "removeSeries") = chartSeries
          /\ \A i \in 1..Len(rendering'.calls) :
                rendering'.calls[i].method = "setData" =>
                    InInputOrder(rendering'.calls[i],
                                 rendering'.data.data_points,
                                 rendering'.variant)
      ]_chartVars

\* A second update in a row with a payload in which two sales share a
\* timestamp has handed its candles to the chart.
C23_Witness ==
    /\ rendering.op = "update"
    /\ rendering.repeat
    /\ ~rendering.fallback
    /\ "setData" \in MethodsCalled
    /\ "removeSeries" \in MethodsCalled
    /\ LET points == rendering.data.data_points
       IN  \E i, j \in 1..Len(points) :
              /\ i < j
              /\ points[i].x = points[j].x
              /\ points[i].variant = points[j].variant
              /\ points[i].y # points[j].y

\* The sum of the first n prices.
RECURSIVE PriceSum(_, _)
PriceSum(prices, n) ==
    IF n = 0 THEN 0 ELSE prices[n].val + PriceSum(prices, n - 1)

\* C24: an update that is summarized (renderFallbackChart) shows one row per
\* date key of the raw points, each with the count, the total (the mean is
\* total / count), the lowest and the highest raw price of its date, the rows
\* ordered latest date first, and only the 10 latest dates when the payload
\* has more.
C24_FallbackSummary ==
    (/\ rendering.op = "update" /\ rendering.fallback
     /\ HasDataPoints(rendering.data)) =>
        LET points == rendering.data.data_points
            dates == {points[i].date : i \in 1..Len(points)}
            rows == mainChart.days
            shown == {rows[n].date : n \in 1..Len(rows)}
        IN  /\ mainChart.shows = "summary"
            /\ Len(rows) = IF Cardinality(dates) > 10 THEN 10
                           ELSE Cardinality(dates)
            /\ shown \subseteq dates
            /\ \A n \in 1..(Len(rows) - 1) : rows[n].date > rows[n + 1].date
            /\ \A d \in dates \ shown : \A e \in shown : d < e
            /\ \A n \in 1..Len(rows) :
                  LET ofDay == SelectSeq(points,
                                         LAMBDA point : point.date = rows[n].date)
                      prices == [i \in 1..Len(ofDay) |-> ofDay[i].y]
                  IN  /\ rows[n].count = Len(ofDay)
                      /\ (\A i \in 1..Len(prices) : ~prices[i].nan) =>
                            /\ rows[n].total = Num(PriceSum(prices, Len(prices)))
                            /\ \E i \in 1..Len(prices) : rows[n].low = prices[i]
                            /\ \E i \in 1..Len(prices) : rows[n].high = prices[i]
                            /\ \A i \in 1..Len(prices) :
                                  /\ rows[n].low.val <= prices[i].val
                                  /\ rows[n].high.val >= prices[i].val

\* A payload of more than 10 days has been summarized: 10 rows, the oldest
\* days left out, one row of two sales with different prices.
C24_Witness ==
    /\ rendering.op = "update"
    /\ rendering.fallback
    /\ HasDataPoints(rendering.data)
    /\ Cardinality({rendering.data.data_points[i].date :
                       i \in 1..Len(rendering.data.data_points)}) > 10
    /\ mainChart.shows = "summary"
    /\ Len(mainChart.days) = 10
    /\ mainChart.days[1].count = 2
    /\ mainChart.days[1].low # mainChart.days[1].high

----------------------------------------------------------------------------
\* Shorthands used by the properties of the service worker.
ApiPath(path) == Len(path) >= 2 /\ path[1] = "api"
CurrentCache ==
    IF CACHE_NAME \in DOMAIN cacheStorage THEN cacheStorage[CACHE_NAME]
    ELSE EmptyMap
Cached(path) == path \in DOMAIN CurrentCache
PutsOf(ops, id) == {op \in ops : op.id = id /\ op.kind = "put"}

\* A step taken for a GET of the API neither reads nor writes the caches:
\* the event starts one fetch, the answer of the server is handed on as it
\* is, and a failed fetch is answered with a successful response of the
\* given body.
ApiNetworkOnly(body) ==
    (answer'.id # 0 /\ answer'.method = "GET" /\ ApiPath(answer'.path)) =>
        /\ ~answer'.matched
        /\ cacheStorage' = cacheStorage
        /\ PutsOf(inflight', answer'.id) = {}
        /\ answer'.op = "fetch" =>
              /\ ~answer'.responded
              /\ \E op \in inflight' \ inflight :
                    op.id = answer'.id /\ op.kind = "api"
        /\ answer'.op = "network" =>
              /\ answer'.responded
              /\ answer'.source = "network"
        /\ answer'.op = "failure" =>
              /\ answer'.responded
              /\ answer'.source = "synthesized"
              /\ answer'.response = Response(TRUE, body)

\* C25 as stated: a GET under /api/ always goes to the network and is never
\* read from or written to the caches; when the network call fails the
\* worker answers with a response whose body is {success:false,
\* error:"offline"}.
C25_ApiOffline ==
    [][ApiNetworkOnly("{\"success\":false,\"error\":\"offline\"}")]_proxyVars

\* C25, amended: a GET under /api/ always goes to the network and is never
\* read from or written to the caches; when the network call fails the
\* worker does not propagate the failure but answers with a response whose
\* body is {success:false, error:"You are offline"}.
C25_ApiYouAreOffline ==
    [][ApiNetworkOnly("{\"success\":false,\"error\":\"You are offline\"}")]_proxyVars

\* An API request whose fetch failed has been answered by the worker, while a
\* put of another request is under way.
C25_Witness ==
    /\ answer.op = "failure"
    /\ ApiPath(answer.path)
    /\ answer.responded
    /\ answer.source = "synthesized"
    /\ \E op \in inflight : op.kind = "put"

\* C26: the caches.match of a GET of a static asset that is in the cache
\* finds its entry, and a request whose match found an entry is answered with
\* that entry in the step in which the match resolves, before any step of the
\* network, and one re-fetch is started; when the re-fetch is answered with
\* an ok response a put of that response is started, which overwrites the
\* entry when it completes; no step of the re-fetch or of the put (ok, not
\* ok, failure) delivers anything to the requester, and a re-fetch that stays
\* outstanding delays nothing.
C26_StaleWhileRevalidate ==
    [][/\ \A op \in inflight \ inflight' :
             (op.kind = "match" /\ Cached(op.path)) =>
                inflight' \ inflight =
                   {[op EXCEPT !.kind = "matched",
                               !.response = CurrentCache[op.path]]}
       /\ \A op \in inflight \ inflight' :
             (op.kind = "matched" /\ op.response # NoResponse) =>
                /\ answer'.op = "match"
                /\ answer'.id = op.id
                /\ answer'.responded
                /\ answer'.source = "cache"
                /\ answer'.response = op.response
                /\ cacheStorage' = cacheStorage
                /\ inflight' \ inflight =
                      {[op EXCEPT !.kind = "revalidate", !.response = NoResponse]}
       /\ \A op \in inflight \ inflight' :
             op.kind = "revalidate" =>
                /\ ~answer'.responded
                /\ cacheStorage' = cacheStorage
                /\ PutsOf(inflight', op.id) =
                      IF answer'.op = "network" /\ answer'.response.ok
                      THEN {[op EXCEPT !.kind = "put",
                                       !.response = answer'.response]}
                      ELSE {}
       /\ \A op \in inflight \ inflight' :
             op.kind = "put" =>
                /\ ~answer'.responded
                /\ cacheStorage' =
                      [cacheStorage EXCEPT ![CACHE_NAME] =
                          MapSet(CurrentCache, op.path, op.response)]
      ]_proxyVars

\* The put of a revalidation has overwritten a precached entry with a later
\* release, while the revalidation of a later event is still outstanding.
C26_Witness ==
    /\ answer.op = "put"
    /\ answer.path \in STATIC_ASSETS
    /\ Cached(answer.path)
    /\ CurrentCache[answer.path] = Response(TRUE, "release 2")
    /\ \E op \in inflight : op.kind = "revalidate" /\ op.id > answer.id

\* C27: a GET of a static asset for which a successful response has been
\* delivered before is answered with the cached response, also when the
\* network is unreachable for it: the promise of respondWith is never
\* rejected and no other response is synthesized.
C27_SecondRequestFromCache ==
    (/\ answer.again /\ answer.method = "GET" /\ ~ApiPath(answer.path)
     /\ answer.responded /\ answer.op \in {"match", "failure"}) =>
        answer.source = "cache"

\* C28: when the answer of the server to a cache miss is handed to the
\* requester, an ok response is in the cache of CACHE_NAME already, and a
\* response that is not ok is not stored and no put of it is under way.
C28_StoredBeforeReturned ==
    (/\ answer.op = "network" /\ answer.responded /\ ~ApiPath(answer.path)) =>
        IF answer.response.ok
        THEN Cached(answer.path) /\ CurrentCache[answer.path] = answer.response
        ELSE PutsOf(inflight, answer.id) = {}

\* C29: from the moment activate has started its deletes, every cache whose
\* name is not CACHE_NAME is either deleted or has its delete outstanding;
\* clients.claim() is called only when all of them are deleted, and from
\* then on, the worker activated, the cache of CACHE_NAME is the only one
\* and no delete is outstanding.
C29_OnlyCurrentCache ==
    /\ chain = "delete" =>
          DOMAIN cacheStorage \ {CACHE_NAME} = deleting
    /\ (chain = "claim" \/ worker = "activated") =>
          /\ DOMAIN cacheStorage = {CACHE_NAME}
          /\ deleting = {}

\* The last of the caches of earlier versions has just been deleted, and
\* with that clients.claim() has been called: only the cache of CACHE_NAME
\* is left.
C29_Witness ==
    /\ worker = "activating"
    /\ chain = "claim"
    /\ answer.op = "delete"
    /\ deleting = {}
    /\ DOMAIN cacheStorage = {CACHE_NAME}

\* C30: a fetch event whose method is not GET is left alone: respondWith is
\* not called, caches.match is not called, no fetch and no put is started,
\* and the caches stay as they are.
C30_NonGetUntouched ==
    [][(answer'.op = "fetch" /\ answer'.method # "GET") =>
          /\ ~answer'.responded
          /\ ~answer'.matched
          /\ inflight' = inflight
          /\ cacheStorage' = cacheStorage
          /\ served' = served
      ]_proxyVars

\* A POST of a cached asset has passed while operations of earlier events
\* are outstanding.
C30_Witness ==
    /\ answer.op = "fetch"
    /\ answer.method = "POST"
    /\ Cached(answer.path)
    /\ inflight # {}

----------------------------------------------------------------------------
\* C31: a postAPI call issues one fetch() when it is called and none
\* afterwards, whatever the answer (HTTP error, network failure, unreadable
\* body): it returns or throws after exactly one request, also when the
\* response cache holds a fresh entry under its endpoint, and no step of it
\* changes state.cache or state.pendingRequests.
C31_PostOnce ==
    [][/\ posted'.id # 0
       /\ posted'.issued = (IF posted'.id \in DOMAIN posts THEN 0 ELSE 1)
       /\ posted'.status # None => posted'.requests = 1
       /\ \A id \in DOMAIN posts' : posts'[id].requests = 1
       /\ cache' = cache
       /\ pendingRequests' = pendingRequests
      ]_pageVars

\* A postAPI call has thrown after an HTTP error while the cache holds a
\* fresh entry under its endpoint and another call is waiting.
C31_Witness ==
    /\ posted.status = "rejected"
    /\ posted.value = "HTTP 503"
    /\ posted.requests = 1
    /\ posted.endpoint \in DOMAIN cache
    /\ posts # EmptyMap

----------------------------------------------------------------------------
\* C33: a fetchAPI(key, skipCache = true) call is never answered from the
\* cache: it joins the request in flight for its key when there is one
\* (no new fetch), and otherwise registers a new promise and issues exactly
\* one fetch, leaving a fresh entry where it is; when a request resolves, the
\* entry of its key holds the new payload with a new timestamp.
C33_SkipCacheReachesNetwork ==
    [][/\ \A i \in 1..Len(outcome'.delivered) :
             outcome'.delivered[i].skipCache => outcome'.delivered[i].handle # 0
       /\ (Len(calls') = Len(calls) + 1 /\ calls'[Len(calls')].skipCache) =>
             LET c == calls'[Len(calls')]
             IN  /\ cache' = cache
                 /\ IF MapHas(pendingRequests, c.key)
                    THEN /\ c.handle = pendingRequests[c.key]
                         /\ net' = net
                         /\ promises' = promises
                         /\ pendingRequests' = pendingRequests
                    ELSE /\ c.handle \notin DOMAIN promises
                         /\ pendingRequests' =
                               MapSet(pendingRequests, c.key, c.handle)
                         /\ promises'[c.handle].attempts = 1
                         /\ net \subseteq net'
                         /\ Cardinality(net' \ net) = 1
       /\ (outcome'.status = "resolved" /\ outcome'.handle # 0) =>
             cache'[outcome'.key] = [data |-> outcome'.value, age |-> 0]
      ]_vars

\* A call with skipCache = true waits for the network while the entry of its
\* key is fresh.
C33_Witness ==
    \E i \in 1..Len(calls) :
        /\ calls[i].skipCache
        /\ calls[i].entryAtIssue
        /\ MapHas(cache, calls[i].key)
        /\ IsFresh(cache[calls[i].key])
        /\ \E f \in net : f.handle = calls[i].handle

----------------------------------------------------------------------------
\* Time passes for the cache: the same entries with the same payloads, none
\* younger.
CacheAged ==
    /\ DOMAIN cache' = DOMAIN cache
    /\ \A k \in DOMAIN cache :
          cache'[k].data = cache[k].data /\ cache'[k].age >= cache[k].age
    /\ calls' = calls
    /\ outcome' = NoOutcome

\* The call a step of fetchAPI was made for: waiting now, or answered at once.
Entered ==
    IF Len(calls') = Len(calls) + 1 THEN {calls'[Len(calls')]}
    ELSE {outcome'.delivered[i] : i \in 1..Len(outcome'.delivered)}
            \ {outcome.delivered[i] : i \in 1..Len(outcome.delivered)}

\* C35: only a step in which a request resolves creates or overwrites a cache
\* entry.  Every other step of fetchAPI (the lookup, a failed attempt, a
\* timeout, a backoff, the final rejection) leaves the cache as it is, but
\* for the lookup of a call without skipCache, which deletes the expired
\* entry of its own key; the entries of other keys, and a fresh entry of the
\* own key under skipCache = true, stay.
C35_FailureLeavesCache ==
    [][(outcome'.status # "resolved") =>
          \/ cache' = cache
          \/ CacheAged
          \/ \E c \in Entered :
                /\ ~c.skipCache
                /\ MapHas(cache, c.key)
                /\ ~(cache[c.key].age < cacheTimeout)
                /\ cache' = MapDelete(cache, c.key)
      ]_vars

\* A request has been rejected after its retries while the cache holds the
\* entry of another key and a fresh entry of its own key (skipCache = true).
C35_Witness ==
    /\ outcome.status = "rejected"
    /\ outcome.promise.attempts = MAX_RETRIES + 1
    /\ MapHas(cache, OtherKey)
    /\ MapHas(cache, outcome.key)
    /\ cache[outcome.key].age < cacheTimeout
    /\ \E i \in 1..Len(outcome.delivered) : outcome.delivered[i].skipCache

----------------------------------------------------------------------------
\* C34: a key that is in state.pendingRequests is removed from it later (its
\* request settles), given that timers fire and every fetch() is answered,
\* fails or is cut by its timeout, also when the response arrives in time and
\* the reading of its body does not end.
C34_EventuallySettles ==
    \A k \in Keys : MapHas(pendingRequests, k) ~> ~MapHas(pendingRequests, k)

----------------------------------------------------------------------------
\* C40: a revalidation that ends with a response that is not ok, or with a
\* network failure, starts no put and leaves every cache as it is; the entry
\* of an asset changes only when a put completes, and then to an ok response
\* of the network for that asset, every other entry staying as it was.
C40_RevalidationKeepsEntry ==
    [][/\ (/\ answer'.op \in {"network", "failure"}
           /\ ~answer'.responded
           /\ answer'.op = "network" => ~answer'.response.ok) =>
              /\ cacheStorage' = cacheStorage
              /\ PutsOf(inflight', answer'.id) = {}
              /\ inflight' \subseteq inflight
       /\ worker = "activated" =>
             \A path \in DOMAIN CurrentCache :
                 (Cached(path)' /\ CurrentCache'[path] = CurrentCache[path])
                 \/ /\ answer'.op = "put"
                    /\ answer'.path = path
                    /\ answer'.response.ok
                    /\ Cached(path)'
                    /\ CurrentCache'[path] = answer'.response
      ]_proxyVars

\* The revalidation of a precached asset was answered with a response that
\* is not ok: the entry is the precached one, and no put is under way for
\* the event, while the put of an earlier revalidation has replaced the entry
\* of another asset.
C40_Witness ==
    /\ answer.op = "network"
    /\ ~answer.responded
    /\ ~answer.response.ok
    /\ Cached(answer.path)
    /\ CurrentCache[answer.path] = Precached
    /\ PutsOf(inflight, answer.id) = {}
    /\ \E path \in DOMAIN CurrentCache :
          path # answer.path /\ CurrentCache[path] = Response(TRUE, "release 2")

----------------------------------------------------------------------------
\* The worker has answered the attempt promise h is at with its synthesized
\* response, and the page has not finished with it.
AnsweredOffline(h) == \E r \in CurrentRoutes(h) : r.source = "synthesized"
OfflinePayload == [success |-> FALSE, error |-> "You are offline"]
AbortDue(h) == \E t \in timers : t.handle = h /\ t.remaining = 0
Moved(h, phase) == h \notin DOMAIN promises' \/ promises'[h].phase # phase

\* C38: the response the worker synthesizes for an API request it could not
\* fetch reaches fetchAPI as a successful response: the attempt is not
\* failed (no retry, no backoff, no further fetch), the request resolves with
\* the payload {success: false, error: 'You are offline'} after the attempts
\* it had made, the payload is stored as a new cache entry, and a later call
\* without skipCache that finds the entry within the TTL is answered with it
\* without a fetch, whatever the network would answer then.
C38_OfflinePayloadCached ==
    [][/\ \A h \in DOMAIN promises :
             (AnsweredOffline(h) /\ promises[h].phase = "fetch" /\ ~AbortDue(h)
                 /\ Moved(h, "fetch")) =>
                /\ h \in DOMAIN promises'
                /\ promises'[h] = [promises[h] EXCEPT !.phase = "body"]
                /\ net' = net
                /\ \A t \in timers' : t.handle # h
                /\ fetchEvents' = fetchEvents
                /\ cache' = cache
       /\ \A h \in DOMAIN promises :
             (AnsweredOffline(h) /\ promises[h].phase = "body"
                 /\ Moved(h, "body")) =>
                /\ outcome'.handle = h
                /\ outcome'.status = "resolved"
                /\ outcome'.value = OfflinePayload
                /\ outcome'.promise.attempts = promises[h].attempts
                /\ outcome'.promise.delays = promises[h].delays
                /\ cache' = MapSet(cache, promises[h].key,
                                   [data |-> OfflinePayload, age |-> 0])
                /\ ~MapHas(pendingRequests', promises[h].key)
                /\ net' = {f \in net : f.handle # h}
                /\ fetchEvents' = fetchEvents
       /\ \A k \in Keys :
             (/\ MapHas(cache, k) /\ cache[k].age < cacheTimeout
              /\ cache[k].data = OfflinePayload
              /\ Issued(k, FALSE) /\ vars' # vars) =>
                /\ outcome'.handle = 0
                /\ Len(outcome'.delivered) = 1
                /\ outcome'.delivered[1].status = "resolved"
                /\ outcome'.delivered[1].value = OfflinePayload
                /\ cache' = cache
                /\ net' = net
                /\ inflight' = inflight
                /\ fetchEvents' = fetchEvents
      ]_<<vars, proxyVars>>

\* The only fetch so far was answered offline, and a call made later, within
\* the TTL, has just been answered with the stored offline payload.
C38_Witness ==
    /\ outcome.handle = 0
    /\ Len(outcome.delivered) = 1
    /\ outcome.delivered[1].status = "resolved"
    /\ outcome.delivered[1].value = OfflinePayload
    /\ ~outcome.delivered[1].skipCache
    /\ cache[outcome.key].age > 0
    /\ fetchEvents = 1
    /\ net = {}
    /\ inflight = {}

----------------------------------------------------------------------------
\* The handles of a sequence of series.
HandleSet(held) == {held[i] : i \in 1..Len(held)}

\* The call of a log that threw, if the handler went to its catch block
\* from a call of RenderPlan: the last one.
ThrewLast(r) ==
    /\ r.fallback
    /\ Len(r.calls) > 0
    /\ r.calls[Len(r.calls)].method \in {"addCandlestickSeries", "setData",
                                          "fitContent"}

\* The series attached to the chart after a step that made the calls of r,
\* when those of before were attached: a chart just created has none,
\* removeSeries detaches one, and an addCandlestickSeries that returned
\* attaches one.
AttachedAfter(r, before) ==
    LET made == 1..Len(r.calls)
        created == \E i \in made : r.calls[i].method = "createChart"
        removed == {r.calls[i].series :
                       i \in {j \in made : r.calls[j].method = "removeSeries"}}
        added == {r.calls[i].series :
                     i \in {j \in made :
                               /\ r.calls[j].method = "addCandlestickSeries"
                               /\ ~(ThrewLast(r) /\ j = Len(r.calls))}}
    IN  ((IF created THEN {} ELSE before) \ removed) \cup added

\* C39: state.chartSeries holds exactly the series attached to the chart:
\* an update that starts with the attached series in state.chartSeries ends
\* with the attached series in state.chartSeries, also when one of its calls
\* throws.
C39_SeriesTracked ==
    [][(rendering'.op = "update" /\ chart' # NoChart) =>
          HandleSet(chartSeries') = AttachedAfter(rendering', HandleSet(chartSeries))
      ]_chartVars

----------------------------------------------------------------------------
\* What the page displays of the chart.
Displayed == <<salesData, chart, chartSeries, chartFallbackMode, mainChart>>

\* C32: when the fetchAPI of a loadChartData call rejects, or resolves with a
\* payload whose success is false, state.salesData, the chart, its series
\* and the render state stay as they were, the selection too, and no
\* exception leaves loadChartData.
C32_FailedLoadKeepsDisplay ==
    [][(\/ loaded'.status = "rejected"
        \/ loaded'.status = "resolved" /\ ~loaded'.data.success) =>
          /\ Displayed' = Displayed
          /\ ~loaded'.assigned
          /\ ~loaded'.threw
          /\ currentVariant' = currentVariant
          /\ currentRange' = currentRange
      ]_<<vars, chartVars, appVars>>

\* A load was answered with success = false while the chart shows the series
\* of an earlier load.
C32_Witness ==
    /\ loaded.status = "resolved"
    /\ ~loaded.data.success
    /\ salesData # EmptyMap
    /\ Len(chartSeries) > 0
    /\ ~chartFallbackMode

\* C36: once state.salesData is the payload of the current selection, it
\* stays so until another selection is made: the answer to the load of an
\* earlier selection, arriving later, does not replace it.
C36_LatestSelectionShown ==
    [][(/\ salesData = ChartData(currentVariant, currentRange)
        /\ currentVariant' = currentVariant
        /\ currentRange' = currentRange) =>
          salesData' = ChartData(currentVariant, currentRange)
      ]_<<vars, chartVars, appVars>>

----------------------------------------------------------------------------
\* C37: no run of the periodic refresh is answered from the cache: the
\* entries an earlier run stored are expired by then, so that the run leaves
\* a request pending for each endpoint it loads, with a fetch in flight
\* unless it joined a request that was pending already.
C37_RefreshReachesNetwork ==
    [][(refreshTimer = 0 /\ refreshTimer' = REFRESH_INTERVAL) =>
          /\ Len(outcome'.delivered) = 0
          /\ \A i \in 1..Len(LoadAllDataUrls) :
                /\ MapHas(pendingRequests', LoadAllDataUrls[i])
                /\ MapHas(pendingRequests, LoadAllDataUrls[i])
                   \/ \E f \in net' : f.key = LoadAllDataUrls[i]
      ]_<<vars, chartVars, appVars>>

====
